---- MODULE Spec2Model ----
(***************************************************************************)
(* SentraIQ evidence pipeline: Raw Vault ingestion/deletion                *)
(* (backend/layers/raw_vault.py), the Pack Assembler                       *)
(* (Telescope.generate_assurance_pack, backend/layers/telescope.py), the   *)
(* SWIFT Excel report endpoint (backend/routers/assurance.py), the Dojo    *)
(* Mapper (backend/layers/dojo_mapper.py), the Auto-Tagger                 *)
(* (backend/layers/auto_tagger.py) and the Telescope query engine with its *)
(* AI response cache (backend/layers/telescope.py).                        *)
(*                                                                         *)
(* Requests are asyncio coroutines on one event loop: the code between two *)
(* awaits runs without interleaving, so every action below is one such     *)
(* await-free stretch of a handler.                                        *)
(***************************************************************************)
EXTENDS Integers, Sequences, FiniteSets, TLC

----------------------------------------------------------------------------
(* Bounds *)

\* last clock second the model reaches (pack ids are clock seconds)
MaxClock == 1

\* largest autoincrement id handed out per table
MaxId == 3

\* number of pack generation requests received
MaxRequests == 2

----------------------------------------------------------------------------
(* Values *)

\* "X" stands for a byte that is not valid UTF-8
ByteStrings == {<<"a">>, <<"b">>, <<"a", "X">>}

Filenames == {"f1", "f2"}

\* ingest requests; each is served once
Ingesters == {"i1", "i2", "i3"}

\* request slots serving generate_assurance_pack calls
Runs == {"r1"}

NoFile == [exists |-> FALSE, entries |-> {}, whole |-> FALSE]

NoDir == [exists |-> FALSE, entries |-> {}]

NoPack == -1

NoHash == <<"none", NoFile>>

\* an existing directory with these entries
DirOf(entries) == [exists |-> TRUE, entries |-> entries]

NoSession == [exists |-> FALSE, pack_id |-> NoPack, excel |-> FALSE]

PackIds == 0..MaxClock

Ids == 1..MaxId

\* (type, id) pairs an evidence item can carry
ItemKeys == {"log", "document"} \X Ids

\* request slots serving Dojo Mapper calls, one call after the other
Mappers == {"m1"}

\* request slots serving delete_log / delete_document calls
Deleters == {"d1"}

\* control_match is None; scores are fractions <<numerator, denominator>>
NoMatch == [control_id |-> "none", score |-> <<0, 1>>, method |-> "none"]

IdleMap == [pc |-> "idle", log_id |-> 0, document_id |-> 0,
            match |-> NoMatch, created |-> 0]

IdleDel == [pc |-> "idle", kind |-> "log", id |-> 0, links |-> {}]

\* nothing was returned yet
NoOut == [op |-> "none"]

\* no query_evidence request was received yet
NoQuery == [pc |-> "idle"]

----------------------------------------------------------------------------
(* Hash Service *)

\* bytes.decode('utf-8', errors='ignore'): invalid bytes are dropped
DecodeIgnore(bytes) == SelectSeq(bytes, LAMBDA b : b # "X")

\* hashlib.sha256(content).hexdigest(), collision-free as the spec assumes
calculate_content_hash(content) == <<"sha256", content>>

\* chunked SHA-256 of a file's bytes: same digest as the whole-buffer hash
calculate_file_hash(bytes) == <<"sha256", bytes>>

\* ingest_log hashes the decoded text, ingest_document the raw bytes
IngestHash(kind, bytes) ==
    IF kind = "log" THEN calculate_content_hash(DecodeIgnore(bytes))
                    ELSE calculate_content_hash(bytes)

----------------------------------------------------------------------------
(* State *)

VARIABLES
    clock,      \* datetime.utcnow() in whole seconds
    rawLogs,    \* raw_logs table: set of [id, hash, filename, bytes]
    rawDocs,    \* raw_documents table: set of [id, hash, filename, bytes]
                \* (bytes: the file_content the record was ingested from)
    logFiles,   \* RAW_LOGS_PATH: set of <<path, bytes>>, path = <<hash, filename>>
    docFiles,   \* RAW_DOCUMENTS_PATH: set of <<path, bytes>>
    nextLogId,  \* next autoincrement id of raw_logs
    nextDocId,  \* next autoincrement id of raw_documents
    ing,        \* per ingest request: position and locals
    sess,       \* the assessment session row [exists, pack_id, excel]
    packs,      \* assurance_packs table
    dirs,       \* ASSURANCE_PACKS_PATH/<pack_id>/ : [exists, entries]
    zips,       \* ASSURANCE_PACKS_PATH/<pack_id>.zip : bytes, or NoFile
    pdfs,       \* ASSURANCE_PACKS_PATH/<pack_id>_report.pdf exists
    run,        \* per request slot: position and locals of the
                \* generate_assurance_pack call it serves
    served,     \* number of generate_assurance_pack calls made so far
    evidence,   \* evidence_objects table: set of [id, control_id, log_id,
                \* document_id, linkage_score, method]; id 0 stands for NULL
    nextEvidenceId, \* next autoincrement id of evidence_objects
    mapr,       \* per Dojo Mapper request: position and locals
    del,        \* per delete request: position and locals
    aiOn,       \* OPENAI_AVAILABLE and settings.OPENAI_API_KEY
    now,        \* time.time() in seconds
    cache,      \* ai_cache.cache: set of [key, value, expires_at]
    calls,      \* number of requests sent to the AI provider so far
    out,        \* what the last Telescope / Auto-Tagger call returned
    qry,        \* the query_evidence request in progress, or its result
    history     \* telescope_queries table, in the order of the ids

vaultVars == <<rawLogs, rawDocs, logFiles, docFiles, nextLogId, nextDocId>>

packFsVars == <<dirs, zips, pdfs>>

dojoVars == <<nextEvidenceId, mapr, del>>

telescopeVars == <<aiOn, now, cache, calls, out, qry, history>>

\* what the Raw Vault ingest and the Pack Assembler leave alone
extVars == <<evidence, dojoVars, telescopeVars>>

vars == <<clock, rawLogs, rawDocs, logFiles, docFiles, nextLogId, nextDocId,
          ing, sess, packs, dirs, zips, pdfs, run, served,
          evidence, nextEvidenceId, mapr, del, aiOn, now, cache, calls, out,
          qry, history>>

IdleIng == [pc |-> "idle", kind |-> "log", bytes |-> <<>>, filename |-> "f1",
            id |-> 0]

\* the counts of the manifest before a run has written them
NoManifest == [evidence_count |-> 0, files_copied |-> 0]

IdleRun == [pc |-> "idle", serial |-> 0, start |-> 0, end |-> 0,
            pack_id |-> NoPack,
            items |-> {}, logs_dict |-> {}, copied |-> {}, failed |-> {},
            pack_hash |-> NoHash, reason |-> "none",
            manifest |-> NoManifest]

InitVault ==
    /\ clock = 0
    /\ rawLogs = {}
    /\ rawDocs = {}
    /\ logFiles = {}
    /\ docFiles = {}
    /\ nextLogId = 1
    /\ nextDocId = 1
    /\ ing = [i \in Ingesters |-> IdleIng]
    /\ sess = NoSession
    /\ packs = {}
    /\ dirs = [p \in PackIds |-> NoDir]
    /\ zips = [p \in PackIds |-> NoFile]
    /\ pdfs = {}
    /\ run = [r \in Runs |-> IdleRun]
    /\ served = 0

InitDojo ==
    /\ evidence = {}
    /\ nextEvidenceId = 1
    /\ mapr = [m \in Mappers |-> IdleMap]
    /\ del = [d \in Deleters |-> IdleDel]

InitTelescope ==
    /\ now = 0
    /\ cache = {}
    /\ calls = 0
    /\ out = NoOut
    /\ qry = NoQuery
    /\ history = <<>>

Init ==
    /\ InitVault
    /\ InitDojo
    /\ InitTelescope
    /\ aiOn = FALSE

----------------------------------------------------------------------------
(* Filesystem helpers *)

FileExists(files, path) == \E f \in files : f[1] = path

\* open(path, 'wb').write(bytes): creates or replaces the file
WriteFile(files, path, bytes) ==
    {f \in files : f[1] # path} \cup {<<path, bytes>>}

\* Path.unlink()
Unlink(files, path) == {f \in files : f[1] # path}

\* verify_file_integrity(file_path, expected_hash): the hash of the bytes on
\* disk is compared with the expected one (a missing file cannot be opened)
verify_file_integrity(files, path, expected_hash) ==
    \E f \in files : f[1] = path /\ calculate_file_hash(f[2]) = expected_hash

Table(kind) == IF kind = "log" THEN rawLogs ELSE rawDocs

Files(kind) == IF kind = "log" THEN logFiles ELSE docFiles

----------------------------------------------------------------------------
(* Raw Vault: ingest_log / ingest_document *)

\* select(...).where(hash == file_hash) looks only in the table of the kind
ExistingByHash(kind, h) == {rec \in Table(kind) : rec.hash = h}

\* hash, duplicate pre-check and, when it passes, the file write; the
\* coroutine then suspends in session.commit()
IngestCheck(i, kind, bytes, filename) ==
    /\ ing[i].pc = "idle"
    /\ LET h == IngestHash(kind, bytes)
           existing == ExistingByHash(kind, h)
           path == <<h, filename>>
       IN IF existing # {}
          THEN /\ ing' = [ing EXCEPT ![i] =
                     [pc |-> "duplicate", kind |-> kind, bytes |-> bytes,
                      filename |-> filename,
                      id |-> (CHOOSE rec \in existing : TRUE).id]]
               /\ UNCHANGED <<logFiles, docFiles>>
          ELSE /\ ing' = [ing EXCEPT ![i] =
                     [pc |-> "commit", kind |-> kind, bytes |-> bytes,
                      filename |-> filename, id |-> 0]]
               /\ IF kind = "log"
                  THEN /\ logFiles' = WriteFile(logFiles, path, bytes)
                       /\ UNCHANGED docFiles
                  ELSE /\ docFiles' = WriteFile(docFiles, path, bytes)
                       /\ UNCHANGED logFiles
    /\ UNCHANGED extVars
    /\ UNCHANGED <<clock, rawLogs, rawDocs, nextLogId, nextDocId, sess, packs,
                   dirs, zips, pdfs, run, served>>

\* the unique index on the hash column decides whether the INSERT goes through
UniqueHashOk(kind, h) == ExistingByHash(kind, h) = {}

\* session.commit(): INSERT the record, or IntegrityError from the unique
\* index, which ingest_* does not catch (the router turns it into a 500)
IngestCommit(i) ==
    /\ ing[i].pc = "commit"
    /\ LET kind == ing[i].kind
           h == IngestHash(kind, ing[i].bytes)
           nid == IF kind = "log" THEN nextLogId ELSE nextDocId
       IN IF UniqueHashOk(kind, h)
          THEN /\ nid <= MaxId
               /\ LET rec == [id |-> nid, hash |-> h,
                              filename |-> ing[i].filename,
                              bytes |-> ing[i].bytes]
                  IN IF kind = "log"
                     THEN /\ rawLogs' = rawLogs \cup {rec}
                          /\ nextLogId' = nextLogId + 1
                          /\ UNCHANGED <<rawDocs, nextDocId>>
                     ELSE /\ rawDocs' = rawDocs \cup {rec}
                          /\ nextDocId' = nextDocId + 1
                          /\ UNCHANGED <<rawLogs, nextLogId>>
               /\ ing' = [ing EXCEPT ![i].pc = "ok", ![i].id = nid]
          ELSE /\ ing' = [ing EXCEPT ![i].pc = "error"]
               /\ UNCHANGED <<rawLogs, rawDocs, nextLogId, nextDocId>>
    /\ UNCHANGED extVars
    /\ UNCHANGED <<clock, logFiles, docFiles, sess, packs, dirs, zips, pdfs,
                   run, served>>

----------------------------------------------------------------------------
(* Raw Vault: delete_log / delete_document *)

\* EvidenceObject.log_id == id / EvidenceObject.document_id == id
References(e, kind, id) ==
    IF kind = "log" THEN e.log_id = id ELSE e.document_id = id

\* the record is looked up, the linkages naming it are deleted, its file is
\* unlinked when present (an unlink error is only logged) and the row deleted;
\* the whole call in one step, for the specifications in which no request
\* writes linkages
Delete(kind, id, unlinkOk) ==
    /\ \E rec \in Table(kind) :
         /\ rec.id = id
         /\ LET path == <<rec.hash, rec.filename>>
            IN IF kind = "log"
               THEN /\ rawLogs' = rawLogs \ {rec}
                    /\ logFiles' = IF unlinkOk THEN Unlink(logFiles, path)
                                               ELSE logFiles
                    /\ UNCHANGED <<rawDocs, docFiles>>
               ELSE /\ rawDocs' = rawDocs \ {rec}
                    /\ docFiles' = IF unlinkOk THEN Unlink(docFiles, path)
                                               ELSE docFiles
                    /\ UNCHANGED <<rawLogs, logFiles>>
    /\ evidence' = {e \in evidence : ~ References(e, kind, id)}
    /\ UNCHANGED <<dojoVars, telescopeVars>>
    /\ UNCHANGED <<clock, nextLogId, nextDocId, ing, sess, packs, dirs, zips,
                   pdfs, run, served>>

delete_log(id, unlinkOk) == Delete("log", id, unlinkOk)

delete_document(id, unlinkOk) == Delete("document", id, unlinkOk)

----------------------------------------------------------------------------
(* Pack Assembler: Telescope.generate_assurance_pack *)

\* time_range_delta.days > 3650 is refused
TenYearsDays == 3650

\* (time_range_start, time_range_end) of a request, in days
TimeRanges == {<<0, 3650>>, <<0, 3651>>, <<1, 1>>, <<1, 0>>}

\* evidence items a pack request can name or a query can return
PackItemKeys == {<<"log", 1>>, <<"document", 1>>}

\* how writing the first archive ends
ZipOutcomes == {"ok", "write_failed"}

\* how the PDF step ends: the report cannot be rendered, or the archive
\* cannot be re-created after the unlink
PdfOutcomes == {"ok", "render_failed", "rezip_failed"}

\* a zip archive cut short by a failed write
PartialZip == [exists |-> TRUE, entries |-> {}, whole |-> FALSE]

\* zipfile.ZipFile(zip_path, 'w') over os.walk(pack_dir)
ZipOf(entries) == [exists |-> TRUE, entries |-> entries, whole |-> TRUE]

\* mutant: an empty time range (start = end) passes the validation
ValidateRange_AllowsEmptyRange(start, end) ==
    IF start > end THEN "start_not_before_end"
    ELSE IF end - start > TenYearsDays THEN "exceeds_10_years"
    ELSE "ok"

\* "Input validation": the ValueError raised, or "ok"
ValidateRange(start, end) ==
    IF start >= end THEN "start_not_before_end"
    ELSE IF end - start > TenYearsDays THEN "exceeds_10_years"
    ELSE "ok"

\* keys of the records query_evidence can return: rows present in the tables
StoredKeys ==
    {<<"log", rec.id>> : rec \in rawLogs}
        \cup {<<"document", rec.id>> : rec \in rawDocs}

\* the explicit ids are appended to the query's items, without duplicates
MergeExplicit(queryItems, explicit) == queryItems \cup explicit

LogKeys(items) == {k \in items : k[1] = "log"}

DocKeys(items) == {k \in items : k[1] = "document"}

\* a pack request has returned, or none was made on the slot yet
RunReturned(r) == run[r].pc \in {"idle", "rejected", "failed", "done"}

\* a request that has returned: only its outcome is kept
Returned(pc, reason, pid) ==
    [IdleRun EXCEPT !.pc = pc, !.reason = reason, !.pack_id = pid]

\* validation, query_evidence and the merge of the explicit ids; the request
\* is refused before anything is created, or suspends in the query's commit
GenStart(r, start, end, queryItems, explicit) ==
    /\ RunReturned(r)
    /\ served < MaxRequests
    /\ served' = served + 1
    /\ queryItems \subseteq StoredKeys
    /\ LET v == ValidateRange(start, end)
           items == MergeExplicit(queryItems, explicit)
       IN run' = [run EXCEPT ![r] =
            IF v # "ok"
            THEN [IdleRun EXCEPT !.pc = "rejected", !.reason = v,
                                 !.start = start, !.end = end]
            ELSE IF items = {}
            THEN [IdleRun EXCEPT !.pc = "rejected", !.reason = "no_evidence",
                                 !.start = start, !.end = end]
            ELSE [IdleRun EXCEPT !.pc = "queried", !.serial = served + 1,
                                 !.items = items,
                                 !.start = start, !.end = end]]
    /\ UNCHANGED extVars
    /\ UNCHANGED <<clock, vaultVars, ing, sess, packs, packFsVars>>

\* pack_id from the clock, mkdir(exist_ok=True), first manifest.json;
\* a manifest that cannot be written raises with the directory left behind
GenCreateDir(r, manifestOk) ==
    /\ run[r].pc = "queried"
    /\ LET pid == clock
           old == dirs[pid].entries
       IN IF manifestOk
          THEN /\ dirs' = [dirs EXCEPT ![pid] = DirOf(
                     {e \in old : e[1] # "manifest"}
                         \cup {<<"manifest", run[r].serial>>})]
               /\ run' = [run EXCEPT ![r].pc = "fetch", ![r].pack_id = pid,
                                     ![r].start = 0, ![r].end = 0,
                                     ![r].manifest.evidence_count =
                                         Cardinality(run[r].items)]
          ELSE /\ dirs' = [dirs EXCEPT ![pid] = DirOf(old)]
               /\ run' = [run EXCEPT ![r] = Returned("failed", "manifest",
                                                     pid)]
    /\ UNCHANGED extVars
    /\ UNCHANGED <<clock, vaultVars, ing, sess, packs, zips, pdfs, served>>

FetchLogs(items) == {rec \in rawLogs : <<"log", rec.id>> \in items}

FetchDocs(items) == {rec \in rawDocs : <<"document", rec.id>> \in items}

\* _copy_evidence_files, first await: the batch select of the logs, when the
\* items hold logs and documents (otherwise there is one select only)
GenFetchLogs(r) ==
    /\ run[r].pc = "fetch"
    /\ LogKeys(run[r].items) # {}
    /\ DocKeys(run[r].items) # {}
    /\ run' = [run EXCEPT ![r].pc = "fetch_docs",
                          ![r].logs_dict = FetchLogs(run[r].items)]
    /\ UNCHANGED extVars
    /\ UNCHANGED <<clock, vaultVars, ing, sess, packs, packFsVars, served>>

\* logs_dict.get(item['id']) / docs_dict.get(item['id'])
FetchedRecord(k, logs_dict, docs_dict) ==
    {rec \in (IF k[1] = "log" THEN logs_dict ELSE docs_dict) : rec.id = k[2]}

\* Path(record.file_path).exists()
SourceExists(k, rec) ==
    FileExists(Files(k[1]), <<rec.hash, rec.filename>>)

\* mutant: an item whose copy raised is appended to copied_files all the same
CopiedItems_DespiteCopyError(items, logs_dict, docs_dict, copyErr) ==
    {k \in items :
        \E rec \in FetchedRecord(k, logs_dict, docs_dict) :
            SourceExists(k, rec)}

\* the copy loop: the items appended to copied_files
CopiedItems(items, logs_dict, docs_dict, copyErr) ==
    {k \in items :
        \E rec \in FetchedRecord(k, logs_dict, docs_dict) :
            SourceExists(k, rec) /\ k \notin copyErr}

\* the copy loop: the entries appended to failed_files, with their reason
FailedFiles(items, logs_dict, docs_dict, copyErr) ==
    {<<k, "not_found_in_database">> : k \in
        {k \in items : FetchedRecord(k, logs_dict, docs_dict) = {}}}
    \cup
    {<<k, "source_file_missing">> : k \in
        {k \in items : \E rec \in FetchedRecord(k, logs_dict, docs_dict) :
                          ~ SourceExists(k, rec)}}
    \cup
    {<<k, "copy_failed">> : k \in
        {k \in items : \E rec \in FetchedRecord(k, logs_dict, docs_dict) :
                          SourceExists(k, rec) /\ k \in copyErr}}

\* pack_hash = calculate_content_hash(zip_path.read_bytes())
PackHash(zipBytes) == calculate_content_hash(zipBytes)

\* mutant: the zero-copy abort leaves the working directory in place
ZeroCopyCleanup_Skipped(dir) == dir

\* shutil.rmtree(pack_dir) when no file was copied
ZeroCopyCleanup(dir) == NoDir

\* shutil.rmtree(pack_dir) when the archive cannot be written
ZipFailureCleanup(dir) == NoDir

\* "Clean up unzipped directory": shutil.rmtree(pack_dir) before the commit
FinalCleanup(dir) == NoDir

\* what the PDF step leaves at zip_path: the re-created archive with the
\* report, a cut-short archive when the re-creation fails after the old zip
\* was unlinked, and the first archive when the report never got that far
ZipAfterPdf(pdfOutcome, firstZip, withPdf) ==
    CASE pdfOutcome = "ok" -> ZipOf(withPdf)
      [] pdfOutcome = "rezip_failed" -> PartialZip
      [] OTHER -> firstZip

\* the pack_hash the PDF step leaves: recomputed only after the archive was
\* re-created; any exception before that keeps the first hash
HashAfterPdf(pdfOutcome, firstZip, withPdf) ==
    IF pdfOutcome = "ok" THEN PackHash(ZipOf(withPdf))
                         ELSE PackHash(firstZip)

\* _generate_pdf_from_manifest writes ASSURANCE_PACKS_PATH/<id>_report.pdf,
\* which nothing removes
PdfsAfterReport(pdfOutcome, pid) ==
    IF pdfOutcome = "render_failed" THEN pdfs ELSE pdfs \cup {pid}

\* manifest['files_copied']: success_count, plus one for a bundled Excel file
ManifestFilesCopied(copied, excelCopied) ==
    Cardinality(copied) + (IF excelCopied THEN 1 ELSE 0)

\* after the last select: copy loop, Excel bundling, manifest re-save, the
\* zero-copy abort, zip, hash, PDF report and re-zip, removal of the working
\* directory; the coroutine then suspends in session.commit().
\* excelCopied: a swift_excel_path was passed, exists and is copied in
GenAssemble(r, copyErr, excelCopied, zipOutcome, pdfOutcome) ==
    /\ \/ run[r].pc = "fetch_docs"
       \/ /\ run[r].pc = "fetch"
          /\ (LogKeys(run[r].items) = {} \/ DocKeys(run[r].items) = {})
    /\ copyErr \subseteq run[r].items
    /\ LET pid == run[r].pack_id
           items == run[r].items
           logs_dict == IF run[r].pc = "fetch_docs" THEN run[r].logs_dict
                                                    ELSE FetchLogs(items)
           docs_dict == FetchDocs(items)
           copied == CopiedItems(items, logs_dict, docs_dict, copyErr)
           failed == FailedFiles(items, logs_dict, docs_dict, copyErr)
           withFiles == dirs[pid].entries \cup copied
           withExcel == IF excelCopied
                        THEN withFiles \cup {<<"reports", "swift_excel">>}
                        ELSE withFiles
           firstZip == ZipOf(withExcel)
           withPdf == withExcel \cup {<<"report_pdf", pid>>}
       IN IF Cardinality(copied) = 0
          THEN /\ dirs' = [dirs EXCEPT ![pid] = ZeroCopyCleanup(@)]
               /\ run' = [run EXCEPT ![r] =
                     [Returned("failed", "no_files_copied", pid)
                         EXCEPT !.copied = copied, !.failed = failed]]
               /\ UNCHANGED <<zips, pdfs>>
          ELSE IF zipOutcome # "ok"
          THEN \* the archive is left cut short
               /\ dirs' = [dirs EXCEPT ![pid] = ZipFailureCleanup(@)]
               /\ zips' = [zips EXCEPT ![pid] = PartialZip]
               /\ run' = [run EXCEPT ![r] =
                     [Returned("failed", "zip", pid)
                         EXCEPT !.copied = copied, !.failed = failed]]
               /\ UNCHANGED pdfs
          ELSE /\ dirs' = [dirs EXCEPT ![pid] = FinalCleanup(@)]
               /\ pdfs' = PdfsAfterReport(pdfOutcome, pid)
               /\ zips' = [zips EXCEPT ![pid] =
                              ZipAfterPdf(pdfOutcome, firstZip, withPdf)]
               /\ run' = [run EXCEPT ![r].pc = "commit",
                                     ![r].items = {},
                                     ![r].logs_dict = {},
                                     ![r].copied = copied,
                                     ![r].failed = failed,
                                     ![r].manifest.files_copied =
                                         ManifestFilesCopied(copied,
                                                             excelCopied),
                                     ![r].pack_hash =
                                         HashAfterPdf(pdfOutcome, firstZip,
                                                      withPdf)]
    /\ UNCHANGED extVars
    /\ UNCHANGED <<clock, vaultVars, ing, sess, packs, served>>

\* session.add(assurance_pack); session.commit(): the row is inserted unless
\* the database refuses it (pack_id is unique)
GenCommit(r, dbOk) ==
    /\ run[r].pc = "commit"
    /\ LET pid == run[r].pack_id
       IN IF dbOk /\ ~ \E p \in packs : p.pack_id = pid
          THEN /\ packs' = packs \cup
                     {[pack_id |-> pid, pack_hash |-> run[r].pack_hash,
                       file_path |-> pid,
                       evidence_count |-> Cardinality(run[r].copied),
                       meta_data |-> run[r].manifest]}
               /\ run' = [run EXCEPT ![r] = Returned("done", "none", pid)]
          ELSE /\ run' = [run EXCEPT ![r].pc = "rollback"]
               /\ UNCHANGED packs
    /\ UNCHANGED extVars
    /\ UNCHANGED <<clock, vaultVars, ing, sess, packFsVars, served>>

\* mutant: the rollback leaves the zip in place
RollbackZip_Skipped(zip) == zip

\* if zip_path.exists(): zip_path.unlink()
RollbackZip(zip) == NoFile

\* after session.rollback(): the zip at zip_path is unlinked, then raise
GenRollback(r) ==
    /\ run[r].pc = "rollback"
    /\ zips' = [zips EXCEPT ![run[r].pack_id] = RollbackZip(@)]
    /\ run' = [run EXCEPT ![r] =
                    Returned("failed", "commit", run[r].pack_id)]
    /\ UNCHANGED extVars
    /\ UNCHANGED <<clock, vaultVars, ing, sess, packs, dirs, pdfs, served>>

----------------------------------------------------------------------------
(* Assessment sessions and the SWIFT Excel report endpoint *)

create_assessment_session ==
    /\ ~ sess.exists
    /\ sess' = [exists |-> TRUE, pack_id |-> NoPack, excel |-> FALSE]
    /\ UNCHANGED extVars
    /\ UNCHANGED <<clock, vaultVars, ing, packs, packFsVars, run, served>>

\* the generate-pack route, for a request that named the session: the pack
\* the call returned is recorded on the session row
LinkSession(r) ==
    /\ run[r].pc = "done"
    /\ sess.exists
    /\ sess.pack_id # run[r].pack_id
    /\ sess' = [sess EXCEPT !.pack_id = run[r].pack_id]
    /\ UNCHANGED extVars
    /\ UNCHANGED <<clock, vaultVars, ing, packs, packFsVars, run, served>>

\* the Excel file is stored and recorded on the session; when the session
\* has a pack and that pack's directory and manifest exist, the file is
\* copied in, the manifest rewritten and the zip re-created
generate_swift_excel_report ==
    /\ sess.exists
    /\ sess' = [sess EXCEPT !.excel = TRUE]
    /\ IF /\ sess.pack_id # NoPack
          /\ dirs[sess.pack_id].exists
          /\ \E e \in dirs[sess.pack_id].entries : e[1] = "manifest"
       THEN LET pid == sess.pack_id
                updated == dirs[pid].entries
                               \cup {<<"reports", "swift_excel">>}
            IN /\ dirs' = [dirs EXCEPT ![pid] = DirOf(updated)]
               /\ zips' = [zips EXCEPT ![pid] = ZipOf(updated)]
       ELSE UNCHANGED <<dirs, zips>>
    /\ UNCHANGED extVars
    /\ UNCHANGED <<clock, vaultVars, ing, packs, pdfs, run, served>>

----------------------------------------------------------------------------
Tick ==
    /\ clock < MaxClock
    /\ clock' = clock + 1
    /\ UNCHANGED extVars
    /\ UNCHANGED <<rawLogs, rawDocs, logFiles, docFiles, nextLogId, nextDocId,
                   ing, sess, packs, dirs, zips, pdfs, run, served>>

NextVault ==
    \/ \E i \in Ingesters, k \in {"log", "document"}, b \in ByteStrings,
          f \in Filenames : IngestCheck(i, k, b, f)
    \/ \E i \in Ingesters : IngestCommit(i)
    \/ \E id \in Ids, ok \in BOOLEAN : delete_log(id, ok)
    \/ \E id \in Ids, ok \in BOOLEAN : delete_document(id, ok)

\* the Raw Vault under concurrent ingest requests
SpecVault == Init /\ [][NextVault]_vars

\* ingest requests of the pack specification, and what they upload
PackIngesters == {"i1", "i2"}

PackByteStrings == {<<"a">>}

Next ==
    \/ \E b \in PackByteStrings : IngestCheck("i1", "log", b, "f1")
    \/ \E b \in PackByteStrings : IngestCheck("i2", "document", b, "f1")
    \/ \E i \in PackIngesters : IngestCommit(i)
    \/ \E id \in Ids : delete_log(id, TRUE)
    \/ Tick
    \/ \E r \in Runs, tr \in TimeRanges,
          q \in SUBSET PackItemKeys, x \in SUBSET PackItemKeys :
            GenStart(r, tr[1], tr[2], q, x)
    \/ \E r \in Runs, ok \in BOOLEAN : GenCreateDir(r, ok)
    \/ \E r \in Runs : GenFetchLogs(r)
    \/ \E r \in Runs, ce \in SUBSET PackItemKeys, zo \in ZipOutcomes,
          po \in PdfOutcomes : GenAssemble(r, ce, FALSE, zo, po)
    \/ \E r \in Runs, ok \in BOOLEAN : GenCommit(r, ok)
    \/ \E r \in Runs : GenRollback(r)

\* the route passes swift_excel_path only from a session that has a report
NextRoutes ==
    \/ Next
    \/ \E r \in Runs, ce \in SUBSET PackItemKeys, zo \in ZipOutcomes,
          po \in PdfOutcomes :
            sess.excel /\ GenAssemble(r, ce, TRUE, zo, po)
    \/ create_assessment_session
    \/ generate_swift_excel_report
    \/ \E r \in Runs : LinkSession(r)

\* the pipeline around the Pack Assembler: pack requests served one after
\* the other, interleaved with ingests, deletes and session requests
Spec == Init /\ [][Next]_vars

\* the same with the assessment-session routes of routers/assurance.py
SpecRoutes == Init /\ [][NextRoutes]_vars

----------------------------------------------------------------------------
(* Dojo Mapper: backend/layers/dojo_mapper.py *)

\* largest autoincrement id handed out by evidence_objects
MaxEvidence == 1

\* the characters of the words of the model: catalog keywords and log tokens
Chars(w) ==
    CASE w = "mfa" -> <<"m", "f", "a">>
      [] w = "two-factor" -> <<"t", "w", "o", "-", "f", "a", "c", "t", "o", "r">>
      [] w = "2fa" -> <<"2", "f", "a">>
      [] w = "authentication" ->
            <<"a", "u", "t", "h", "e", "n", "t", "i", "c", "a", "t", "i", "o", "n">>
      [] w = "login" -> <<"l", "o", "g", "i", "n">>
      [] w = "access" -> <<"a", "c", "c", "e", "s", "s">>
      [] w = "authorization" ->
            <<"a", "u", "t", "h", "o", "r", "i", "z", "a", "t", "i", "o", "n">>
      [] w = "permission" -> <<"p", "e", "r", "m", "i", "s", "s", "i", "o", "n">>
      [] w = "denied" -> <<"d", "e", "n", "i", "e", "d">>
      [] w = "failed" -> <<"f", "a", "i", "l", "e", "d">>
      [] w = "encryption" -> <<"e", "n", "c", "r", "y", "p", "t", "i", "o", "n">>
      [] w = "tls" -> <<"t", "l", "s">>
      [] w = "ssl" -> <<"s", "s", "l">>
      [] w = "encrypted" -> <<"e", "n", "c", "r", "y", "p", "t", "e", "d">>
      [] w = "cipher" -> <<"c", "i", "p", "h", "e", "r">>
      [] w = "audit" -> <<"a", "u", "d", "i", "t">>
      [] w = "log" -> <<"l", "o", "g">>
      [] w = "record" -> <<"r", "e", "c", "o", "r", "d">>
      [] w = "event" -> <<"e", "v", "e", "n", "t">>
      [] w = "activity" -> <<"a", "c", "t", "i", "v", "i", "t", "y">>
      [] w = "action" -> <<"a", "c", "t", "i", "o", "n">>
      [] w = "auth" -> <<"a", "u", "t", "h">>
      [] w = "are" ->
            <<"a", "r", "e">>
      [] w = "vulnerability" ->
            <<"v", "u", "l", "n", "e", "r", "a", "b", "i", "l", "i", "t", "y">>
      [] w = "scans" ->
            <<"s", "c", "a", "n", "s">>
      [] w = "performed" ->
            <<"p", "e", "r", "f", "o", "r", "m", "e", "d">>
      [] w = "quarterly?" ->
            <<"q", "u", "a", "r", "t", "e", "r", "l", "y", "?">>
      [] w = "critical" ->
            <<"c", "r", "i", "t", "i", "c", "a", "l">>
      [] w = "vulnerabilities" ->
            <<"v", "u", "l", "n", "e", "r", "a", "b", "i", "l", "i", "t", "i", "e", "s">>
      [] w = "remediated" ->
            <<"r", "e", "m", "e", "d", "i", "a", "t", "e", "d">>
      [] w = "within" ->
            <<"w", "i", "t", "h", "i", "n">>
      [] w = "30" ->
            <<"3", "0">>
      [] w = "days?" ->
            <<"d", "a", "y", "s", "?">>
      [] w = "scan" ->
            <<"s", "c", "a", "n">>
      [] w = "results" ->
            <<"r", "e", "s", "u", "l", "t", "s">>
      [] w = "reviewed" ->
            <<"r", "e", "v", "i", "e", "w", "e", "d">>
      [] w = "and" ->
            <<"a", "n", "d">>
      [] w = "documented?" ->
            <<"d", "o", "c", "u", "m", "e", "n", "t", "e", "d", "?">>
      [] w = "is" ->
            <<"i", "s">>
      [] w = "testing" ->
            <<"t", "e", "s", "t", "i", "n", "g">>
      [] w = "done" ->
            <<"d", "o", "n", "e">>
      [] w = "annually?" ->
            <<"a", "n", "n", "u", "a", "l", "l", "y", "?">>
      [] w = "daily" ->
            <<"d", "a", "i", "l", "y">>
      [] w = "backups" ->
            <<"b", "a", "c", "k", "u", "p", "s">>
      [] w = "yearly?" ->
            <<"y", "e", "a", "r", "l", "y", "?">>
      [] w = "patching" ->
            <<"p", "a", "t", "c", "h", "i", "n", "g">>
      [] w = "monthly?" ->
            <<"m", "o", "n", "t", "h", "l", "y", "?">>
      [] w = "logs" ->
            <<"l", "o", "g", "s">>
      [] w = "checked" ->
            <<"c", "h", "e", "c", "k", "e", "d">>
      [] w = "weekly?" ->
            <<"w", "e", "e", "k", "l", "y", "?">>
      [] w = "daily?" ->
            <<"d", "a", "i", "l", "y", "?">>
      [] w = "enforced?" ->
            <<"e", "n", "f", "o", "r", "c", "e", "d", "?">>
      [] w = "rescans" ->
            <<"r", "e", "s", "c", "a", "n", "s">>
      [] w = "completed" ->
            <<"c", "o", "m", "p", "l", "e", "t", "e", "d">>
      [] w = "this" ->
            <<"t", "h", "i", "s">>
      [] w = "annual" ->
            <<"a", "n", "n", "u", "a", "l">>
      [] w = "yearly" ->
            <<"y", "e", "a", "r", "l", "y">>
      [] w = "quarterly" ->
            <<"q", "u", "a", "r", "t", "e", "r", "l", "y">>
      [] w = "monthly" ->
            <<"m", "o", "n", "t", "h", "l", "y">>
      [] w = "weekly" ->
            <<"w", "e", "e", "k", "l", "y">>
      [] w = "backup" ->
            <<"b", "a", "c", "k", "u", "p">>
      [] w = "monitoring" ->
            <<"m", "o", "n", "i", "t", "o", "r", "i", "n", "g">>

\* Python's `s in t` on strings
IsSubstring(s, t) ==
    \E i \in 0..(Len(Chars(t)) - Len(Chars(s))) :
        SubSeq(Chars(t), i + 1, i + Len(Chars(s))) = Chars(s)

\* settings.CONTROL_MAPPINGS.items(), in insertion order
CONTROL_MAPPINGS ==
    << [control_id |-> "AC-001",
        keywords |-> {"mfa", "two-factor", "2fa", "authentication", "login"}],
       [control_id |-> "AC-002",
        keywords |-> {"access", "authorization", "permission", "denied",
                      "failed"}],
       [control_id |-> "CR-001",
        keywords |-> {"encryption", "tls", "ssl", "encrypted", "cipher"}],
       [control_id |-> "AU-001",
        keywords |-> {"audit", "log", "record", "event", "activity"}] >>

\* words the alternation patterns ('mfa', 'failed', 'success', 'encryption',
\* 'access') capture; content is a sequence of whitespace-separated tokens
PatternWords ==
    {"mfa", "two-factor", "2fa", "authentication", "failed", "denied",
     "tls", "ssl", "cipher", "access", "login"}

\* fields whose value is captured: status[:\s]+(\w+), action[:\s]+(\w+), ...
FieldNames == {"status", "action", "user"}

\* list(set(keywords)): the captured words, without duplicates
_extract_keywords_from_log(content) ==
    {content[i] : i \in {j \in 1..Len(content) : content[j] \in PatternWords}}
    \cup
    {content[i + 1] : i \in {j \in 1..(Len(content) - 1) :
                                content[j] \in FieldNames}}

\* a < b on fractions with positive denominators
FracLess(a, b) == a[1] * b[2] < b[1] * a[2]

\* score of one control: keywords that contain, or are contained in, one of
\* the control's keywords, over the number of control keywords
FallbackScore(control_info, keywords) ==
    << Cardinality({kw \in keywords :
           \E ck \in control_info.keywords :
               IsSubstring(ck, kw) \/ IsSubstring(kw, ck)}),
       Cardinality(control_info.keywords) >>

\* "30% match threshold" of the fallback matcher
FallbackThreshold == <<3, 10>>

\* the loop over the controls: a later control replaces the best one only
\* with a strictly higher score
RECURSIVE FallbackLoop(_, _, _)
FallbackLoop(i, best, keywords) ==
    IF i > Len(CONTROL_MAPPINGS) THEN best
    ELSE LET score == FallbackScore(CONTROL_MAPPINGS[i], keywords)
         IN IF FracLess(best.score, score)
            THEN FallbackLoop(i + 1,
                     [control_id |-> CONTROL_MAPPINGS[i].control_id,
                      score |-> score, method |-> "keyword"], keywords)
            ELSE FallbackLoop(i + 1, best, keywords)

\* mutant: the best control is returned whatever its score
_match_control_fallback_NoThreshold(keywords) ==
    FallbackLoop(1, NoMatch, keywords)

_match_control_fallback(keywords) ==
    LET best == FallbackLoop(1, NoMatch, keywords)
    IN IF FracLess(FallbackThreshold, best.score) THEN best ELSE NoMatch

\* what the chat completion call does: it raises, or its message parses to
\* JSON null or to an object with a control_id and a confidence_score (in
\* hundredths)
AiReplies ==
    {[kind |-> "error", control_id |-> "none", confidence |-> 0],
     [kind |-> "null", control_id |-> "none", confidence |-> 0]}
    \cup
    [kind : {"json"}, control_id : {"AC-001", "ZZ-999"},
     confidence : {39, 40, 150}]

\* confidence below which the AI match is dropped, in hundredths
AiThreshold == 40

ControlIds == {CONTROL_MAPPINGS[i].control_id : i \in DOMAIN CONTROL_MAPPINGS}

_match_control_with_ai(content, keywords, reply) ==
    IF ~ aiOn THEN _match_control_fallback(keywords)
    ELSE IF reply.kind = "error" THEN _match_control_fallback(keywords)
    ELSE IF reply.kind = "null" \/ reply.confidence < AiThreshold THEN NoMatch
    ELSE IF reply.control_id \in ControlIds
    THEN [control_id |-> reply.control_id,
          score |-> <<reply.confidence, 100>>, method |-> "ai"]
    ELSE NoMatch

_match_control(keywords, content, reply) ==
    IF content # <<>> THEN _match_control_with_ai(content, keywords, reply)
                      ELSE _match_control_fallback(keywords)

\* RawLog.content: the decoded text
LogContent(rec) == DecodeIgnore(rec.bytes)

\* RawDocument.extracted_text: the text of the PDF, "" when it cannot be
\* parsed (bytes holding "X")
ExtractedText(rec) ==
    IF \E i \in 1..Len(rec.bytes) : rec.bytes[i] = "X" THEN <<>>
                                                       ELSE rec.bytes

\* a mapper request has returned, or none was made on the slot yet; of a
\* returned request only the outcome is kept
MapReturned(m) == mapr[m].pc \in {"idle", "not_found", "empty", "done"}

\* map_log_to_controls up to its commit: the log is read, the keywords are
\* extracted and matched and the linkage, if any, is added to the session
MapLog(m, log_id, reply) ==
    /\ MapReturned(m)
    /\ LET found == {rec \in rawLogs : rec.id = log_id}
       IN mapr' = [mapr EXCEPT ![m] =
            IF found = {}
            THEN [IdleMap EXCEPT !.pc = "not_found"]
            ELSE LET log == CHOOSE rec \in found : TRUE
                     keywords == _extract_keywords_from_log(LogContent(log))
                 IN [IdleMap EXCEPT !.pc = "commit", !.log_id = log_id,
                        !.match = _match_control(keywords, LogContent(log),
                                                 reply)]]
    /\ UNCHANGED <<clock, vaultVars, ing, sess, packs, packFsVars, run, served,
                   evidence, nextEvidenceId, del, telescopeVars>>

\* map_document_to_controls up to its commit; a document without extracted
\* text returns [] at once
MapDocument(m, document_id, reply) ==
    /\ MapReturned(m)
    /\ LET found == {rec \in rawDocs : rec.id = document_id}
       IN mapr' = [mapr EXCEPT ![m] =
            IF found = {}
            THEN [IdleMap EXCEPT !.pc = "not_found"]
            ELSE LET document == CHOOSE rec \in found : TRUE
                     text == ExtractedText(document)
                     keywords == _extract_keywords_from_log(text)
                 IN IF text = <<>>
                    THEN [IdleMap EXCEPT !.pc = "empty"]
                    ELSE [IdleMap EXCEPT !.pc = "commit",
                            !.document_id = document_id,
                            !.match = _match_control(keywords, text, reply)]]
    /\ UNCHANGED <<clock, vaultVars, ing, sess, packs, packFsVars, run, served,
                   evidence, nextEvidenceId, del, telescopeVars>>

\* create_log_document_linkage up to its commit: both records and the
\* control must exist; an explicit linkage has score 1.0
LinkLogDocument(m, log_id, document_id, control_id) ==
    /\ MapReturned(m)
    /\ mapr' = [mapr EXCEPT ![m] =
         IF \/ ~ \E rec \in rawLogs : rec.id = log_id
            \/ ~ \E rec \in rawDocs : rec.id = document_id
            \/ control_id \notin ControlIds
         THEN [IdleMap EXCEPT !.pc = "not_found"]
         ELSE [IdleMap EXCEPT !.pc = "commit", !.log_id = log_id,
                 !.document_id = document_id,
                 !.match = [control_id |-> control_id, score |-> <<1, 1>>,
                            method |-> "manual"]]]
    /\ UNCHANGED <<clock, vaultVars, ing, sess, packs, packFsVars, run, served,
                   evidence, nextEvidenceId, del, telescopeVars>>

\* session.commit() of a mapper request: the added EvidenceObject, if any, is
\* inserted; log_id and document_id are plain integer columns
MapCommit(m) ==
    /\ mapr[m].pc = "commit"
    /\ IF mapr[m].match # NoMatch
       THEN /\ nextEvidenceId <= MaxEvidence
            /\ evidence' = evidence \cup
                  {[id |-> nextEvidenceId,
                    control_id |-> mapr[m].match.control_id,
                    log_id |-> mapr[m].log_id,
                    document_id |-> mapr[m].document_id,
                    linkage_score |-> mapr[m].match.score,
                    method |-> mapr[m].match.method]}
            /\ nextEvidenceId' = nextEvidenceId + 1
            /\ mapr' = [mapr EXCEPT ![m] =
                  [IdleMap EXCEPT !.pc = "done", !.created = 1]]
       ELSE /\ mapr' = [mapr EXCEPT ![m] = [IdleMap EXCEPT !.pc = "done"]]
            /\ UNCHANGED <<evidence, nextEvidenceId>>
    /\ UNCHANGED <<clock, vaultVars, ing, sess, packs, packFsVars, run, served,
                   del, telescopeVars>>

\* a delete request has returned, or none was made on the slot yet
DelReturned(d) == del[d].pc \in {"idle", "not_found", "done"}

\* delete_log / delete_document, the selects: the record, then the
\* EvidenceObjects naming it, which session.delete() marks for deletion
DeleteSelect(d, kind, id) ==
    /\ DelReturned(d)
    /\ del' = [del EXCEPT ![d] =
         IF \E rec \in Table(kind) : rec.id = id
         THEN [pc |-> "selected", kind |-> kind, id |-> id,
               links |-> {e.id : e \in {x \in evidence :
                                           References(x, kind, id)}}]
         ELSE [IdleDel EXCEPT !.pc = "not_found"]]
    /\ UNCHANGED <<clock, vaultVars, ing, sess, packs, packFsVars, run, served,
                   evidence, nextEvidenceId, mapr, telescopeVars>>

\* delete_log / delete_document, the rest: the file is unlinked when present
\* (an unlink error is only logged), the record is marked for deletion and
\* session.commit() deletes the marked rows
DeleteCommit(d, unlinkOk) ==
    /\ del[d].pc = "selected"
    /\ LET kind == del[d].kind
           gone == {rec \in Table(kind) : rec.id = del[d].id}
           paths == {<<rec.hash, rec.filename>> : rec \in gone}
           kept(files) == IF unlinkOk THEN {f \in files : f[1] \notin paths}
                                      ELSE files
       IN IF kind = "log"
          THEN /\ rawLogs' = rawLogs \ gone
               /\ logFiles' = kept(logFiles)
               /\ UNCHANGED <<rawDocs, docFiles>>
          ELSE /\ rawDocs' = rawDocs \ gone
               /\ docFiles' = kept(docFiles)
               /\ UNCHANGED <<rawLogs, logFiles>>
    /\ evidence' = {e \in evidence : e.id \notin del[d].links}
    /\ del' = [del EXCEPT ![d] = [IdleDel EXCEPT !.pc = "done"]]
    /\ UNCHANGED <<clock, nextLogId, nextDocId, ing, sess, packs, packFsVars,
                   run, served, nextEvidenceId, mapr, telescopeVars>>

\* what the mapper specification uploads: log texts and PDF documents
DojoLogContents ==
    {<<"denied">>, <<"mfa", "login">>,
     <<"action", "auth", "mfa", "2fa", "two-factor", "authentication",
       "login">>}

DojoDocContents == {<<"X">>, <<"mfa", "login">>}

\* ids the requests name: the one stored record of a kind, and a missing one
DojoIds == {1, 2}

NextDojo ==
    \/ \E b \in DojoLogContents : IngestCheck("i1", "log", b, "f1")
    \/ \E b \in DojoDocContents : IngestCheck("i2", "document", b, "f1")
    \/ \E i \in PackIngesters : IngestCommit(i)
    \/ \E m \in Mappers, id \in DojoIds, reply \in AiReplies :
          MapLog(m, id, reply)
    \/ \E m \in Mappers, id \in DojoIds, reply \in AiReplies :
          MapDocument(m, id, reply)
    \/ \E m \in Mappers, l \in DojoIds, d \in DojoIds,
          c \in {"AC-002", "ZZ-999"} : LinkLogDocument(m, l, d, c)
    \/ \E m \in Mappers : MapCommit(m)
    \/ \E d \in Deleters, k \in {"log", "document"}, id \in DojoIds :
          DeleteSelect(d, k, id)
    \/ \E d \in Deleters, ok \in BOOLEAN : DeleteCommit(d, ok)

\* the Dojo Mapper with or without the AI provider configured
InitMapper ==
    /\ InitVault
    /\ InitDojo
    /\ InitTelescope
    /\ aiOn \in BOOLEAN

\* mapper, manual linkage and delete requests interleaved with ingests
SpecDojo == InitMapper /\ [][NextDojo]_vars

----------------------------------------------------------------------------
(* Auto-Tagger: backend/layers/auto_tagger.py *)

\* longest content, in tokens, handed to auto_tag
MaxTokens == 3

\* confidences, in hundredths
SourceConfidence == 80

ContentConfidence == 70

KeywordBase == 60

KeywordStep == 5

KeywordCap == 90

\* "At least 2 keyword matches"
KeywordMinMatches == 2

\* get_all_controls(), in insertion order: the catalog controls the tables
\* below name, with their keywords
TagControls ==
    << [control_id |-> "SWIFT-2.7",
        keywords |-> {"vulnerability", "scanning", "tenable", "nessus",
                      "penetration", "security_test"}],
       [control_id |-> "SWIFT-2.8",
        keywords |-> {"service provider", "outsourcing", "vendor",
                      "selection", "management"}],
       [control_id |-> "SWIFT-3.1",
        keywords |-> {"physical", "security", "data center", "server room",
                      "access control", "connector"}],
       [control_id |-> "SOC2-CC6.2",
        keywords |-> {"mfa", "two-factor", "2fa", "authentication",
                      "privileged"}],
       [control_id |-> "SOC2-CC7.1",
        keywords |-> {"monitoring", "log", "audit", "detection", "anomaly",
                      "siem"}] >>

TagControlIds == {TagControls[i].control_id : i \in DOMAIN TagControls}

\* SOURCE_TO_CONTROL_MAP entries, in insertion order
SOURCE_TO_CONTROL_MAP ==
    << [key |-> "tenable", control_ids |-> <<"SWIFT-2.7", "SOC2-CC7.1">>],
       [key |-> "swift", control_ids |-> <<"SWIFT-2.8", "SWIFT-3.1">>] >>

\* CONTENT_PATTERNS entries, in insertion order: r"vulnerability.*scan" and
\* r"mfa.*challenge"; of the tokens only "scanning" contains "scan"
CONTENT_PATTERNS ==
    << [first |-> "vulnerability", then |-> "scanning",
        control_ids |-> <<"SWIFT-2.7">>],
       [first |-> "mfa", then |-> "challenge",
        control_ids |-> <<"SWIFT-2.8", "SOC2-CC6.2">>] >>

\* source systems of an upload (lower-cased); none contains another's name
TagSources == {"tenable", "swift", "syslog"}

\* words of a content; none is a substring of another
TagTokens == {"vulnerability", "scanning", "nessus", "mfa", "challenge"}

RECURSIVE SeqsUpTo(_, _)
SeqsUpTo(S, n) ==
    IF n = 0 THEN {<<>>}
    ELSE LET shorter == SeqsUpTo(S, n - 1)
         IN shorter \cup {Append(q, x) : q \in shorter, x \in S}

TagContents == SeqsUpTo(TagTokens, MaxTokens)

\* one entry of matched_controls per listed control of the catalog
TagsFor(control_ids, confidence, method) ==
    LET known == SelectSeq(control_ids, LAMBDA c : c \in TagControlIds)
    IN [j \in 1..Len(known) |->
           [control_id |-> known[j], confidence |-> confidence,
            mapping_method |-> <<method>>]]

\* "Remove duplicates": the first entry of each control_id is kept
RECURSIVE RemoveDuplicates(_, _)
RemoveDuplicates(tags, seen) ==
    IF tags = <<>> THEN <<>>
    ELSE IF Head(tags).control_id \in seen
    THEN RemoveDuplicates(Tail(tags), seen)
    ELSE <<Head(tags)>>
            \o RemoveDuplicates(Tail(tags), seen \cup {Head(tags).control_id})

\* source_key in combined
RECURSIVE SourceMatches(_, _)
SourceMatches(i, source) ==
    IF i > Len(SOURCE_TO_CONTROL_MAP) THEN <<>>
    ELSE (IF SOURCE_TO_CONTROL_MAP[i].key = source
          THEN TagsFor(SOURCE_TO_CONTROL_MAP[i].control_ids,
                       SourceConfidence, "source_heuristic")
          ELSE <<>>) \o SourceMatches(i + 1, source)

auto_tag_from_source(source) ==
    RemoveDuplicates(SourceMatches(1, source), {})

\* re.search(pattern, content_lower)
PatternFound(p, content) ==
    \E i \in 1..Len(content), j \in 1..Len(content) :
        i < j /\ content[i] = p.first /\ content[j] = p.then

RECURSIVE PatternMatches(_, _)
PatternMatches(i, content) ==
    IF i > Len(CONTENT_PATTERNS) THEN <<>>
    ELSE (IF PatternFound(CONTENT_PATTERNS[i], content)
          THEN TagsFor(CONTENT_PATTERNS[i].control_ids,
                       ContentConfidence, "content_heuristic")
          ELSE <<>>) \o PatternMatches(i + 1, content)

Min(a, b) == IF a < b THEN a ELSE b

Max(a, b) == IF a > b THEN a ELSE b

\* sum(1 for kw in keywords if kw.lower() in content_lower)
KeywordCount(control, content) ==
    Cardinality({kw \in control.keywords :
                    \E i \in 1..Len(content) : content[i] = kw})

RECURSIVE KeywordMatches(_, _)
KeywordMatches(i, content) ==
    IF i > Len(TagControls) THEN <<>>
    ELSE LET matches == KeywordCount(TagControls[i], content)
         IN (IF matches >= KeywordMinMatches
             THEN << [control_id |-> TagControls[i].control_id,
                      confidence |->
                          Min(KeywordBase + matches * KeywordStep,
                              KeywordCap),
                      mapping_method |-> <<"keyword_match">>] >>
             ELSE <<>>) \o KeywordMatches(i + 1, content)

auto_tag_from_content(content) ==
    RemoveDuplicates(PatternMatches(1, content) \o KeywordMatches(1, content),
                     {})

\* "Deduplicate and merge": control_map keeps the first tag of a control and
\* raises its confidence to that of the later ones
RECURSIVE MergeTags(_, _)
MergeTags(tags, merged) ==
    IF tags = <<>> THEN merged
    ELSE LET tag == Head(tags)
             at == {k \in 1..Len(merged) :
                       merged[k].control_id = tag.control_id}
         IN IF at = {}
            THEN MergeTags(Tail(tags), Append(merged, tag))
            ELSE LET k == CHOOSE x \in at : TRUE
                 IN MergeTags(Tail(tags),
                       [merged EXCEPT
                          ![k].confidence = Max(@, tag.confidence),
                          ![k].mapping_method = @ \o tag.mapping_method])

auto_tag(source, content) ==
    MergeTags(auto_tag_from_source(source)
                 \o (IF content # <<>> THEN auto_tag_from_content(content)
                                       ELSE <<>>),
              <<>>)

\* ingest_log / ingest_document tag the upload they are about to store
AutoTagCall(source, content) ==
    /\ out' = [op |-> "auto_tag", source |-> source, content |-> content,
               tags |-> auto_tag(source, content)]
    /\ UNCHANGED <<clock, vaultVars, ing, sess, packs, packFsVars, run, served,
                   evidence, dojoVars, qry, history, aiOn, now, cache, calls>>

NextTagger ==
    \E source \in TagSources, content \in TagContents :
        AutoTagCall(source, content)

\* auto_tag over every source and content
SpecTagger == Init /\ [][NextTagger]_vars

----------------------------------------------------------------------------
(* AI response cache: class AICache, backend/layers/telescope.py *)

\* last instant, in seconds, the cache is used at
MaxNow == 18001

\* ai_cache = AICache(default_ttl_seconds=18000)
DefaultTtl == 18000

\* ttl_seconds of the relevance scores
ScoreTtl == 3600

\* ttl_seconds of the parsed intents and of the summaries
ParseTtl == 18000

\* Optional values: None is <<>>, a value v is <<v>>
None == <<>>

Some(v) == <<v>>

CacheEntry(c, key) == {e \in c : e.key = key}

\* mutant: entries never expire
Expired_Never(e, t) == FALSE

\* time.time() > entry['expires_at']
Expired(e, t) == t > e.expires_at

\* mutant: an expired entry is still served
AICache_get_ServesExpired(c, t, key) ==
    IF CacheEntry(c, key) = {} THEN None
    ELSE Some((CHOOSE e \in CacheEntry(c, key) : TRUE).value)

\* AICache.get, the value returned
AICache_get(c, t, key) ==
    IF CacheEntry(c, key) = {} THEN None
    ELSE LET entry == CHOOSE e \in CacheEntry(c, key) : TRUE
         IN IF Expired(entry, t) THEN None ELSE Some(entry.value)

\* AICache.get, the cache it leaves: an expired entry is deleted
AfterGet(c, t, key) ==
    {e \in c : ~ (e.key = key /\ Expired(e, t))}

\* AICache.set: the entry of the key is created or replaced;
\* ttl_seconds None stands for the default TTL
AICache_set(c, t, key, value, ttl_seconds) ==
    LET ttl == IF ttl_seconds # None THEN ttl_seconds[1] ELSE DefaultTtl
    IN {e \in c : e.key # key}
          \cup {[key |-> key, value |-> value, expires_at |-> t + ttl]}

\* AICache.clear
AICache_clear(c) == {}

\* keys and values of the calls made on the cache alone
CacheKeys == {"k1", "k2"}

CacheValues == {"v1", "v2"}

CacheTtls == {None, Some(ScoreTtl)}

CacheGetCall(key) ==
    /\ out' = [op |-> "get", key |-> key,
               value |-> AICache_get(cache, now, key)]
    /\ cache' = AfterGet(cache, now, key)
    /\ UNCHANGED <<clock, vaultVars, ing, sess, packs, packFsVars, run, served,
                   evidence, dojoVars, qry, history, aiOn, now, calls>>

CacheSetCall(key, value, ttl_seconds) ==
    /\ out' = [op |-> "set", key |-> key, value |-> Some(value)]
    /\ cache' = AICache_set(cache, now, key, value, ttl_seconds)
    /\ UNCHANGED <<clock, vaultVars, ing, sess, packs, packFsVars, run, served,
                   evidence, dojoVars, qry, history, aiOn, now, calls>>

\* POST /cache/clear
CacheClearCall ==
    /\ out' = [op |-> "clear", key |-> "none", value |-> None]
    /\ cache' = AICache_clear(cache)
    /\ UNCHANGED <<clock, vaultVars, ing, sess, packs, packFsVars, run, served,
                   evidence, dojoVars, qry, history, aiOn, now, calls>>

\* instants at which an entry of the cache is about to expire or has just
\* expired
ExpiryInstants(c) ==
    {e.expires_at : e \in c} \cup {e.expires_at + 1 : e \in c}

\* time passes; nothing else happens (no thread sweeps the cache)
Advance(t) ==
    /\ t > now
    /\ t <= MaxNow
    /\ now' = t
    /\ UNCHANGED <<clock, vaultVars, ing, sess, packs, packFsVars, run, served,
                   evidence, dojoVars, qry, history, aiOn, cache, calls, out>>

NextCache ==
    \/ \E key \in CacheKeys : CacheGetCall(key)
    \/ \E key \in CacheKeys, value \in CacheValues, ttl \in CacheTtls :
          CacheSetCall(key, value, ttl)
    \/ CacheClearCall
    \/ \E t \in ExpiryInstants(cache) : Advance(t)

\* the AICache methods called in any order as time passes
SpecCache == Init /\ [][NextCache]_vars

----------------------------------------------------------------------------
(* Telescope: the AI-backed steps, backend/layers/telescope.py *)

\* number of requests the AI provider receives
MaxCalls == 2

\* control_patterns of the fallback parser, in insertion order
ControlPatterns ==
    << [type |-> "mfa",
        keywords |-> {"mfa", "multi-factor", "two-factor", "2fa",
                      "authentication"}],
       [type |-> "access",
        keywords |-> {"access", "login", "authorization", "permission"}],
       [type |-> "encryption",
        keywords |-> {"encryption", "tls", "ssl", "cipher"}],
       [type |-> "audit", keywords |-> {"audit", "log", "record", "trail"}],
       [type |-> "logging", keywords |-> {"logging", "logs"}],
       [type |-> "monitoring",
        keywords |-> {"monitoring", "monitor", "surveillance"}],
       [type |-> "backup", keywords |-> {"backup", "recovery", "restore"}],
       [type |-> "incident-response",
        keywords |-> {"incident", "breach", "response", "alert"}] >>

\* a query is its sequence of lower-case words; among the words of the
\* model none contains a keyword without being that keyword
InQuery(word, query) == \E i \in 1..Len(query) : query[i] = word

\* two words in a row, as in r'(?:last|past)\s+month'
Adjacent(firsts, second, query) ==
    \E i \in 1..(Len(query) - 1) :
        query[i] \in firsts /\ query[i + 1] = second

\* time_patterns of the fallback parser
TimeLabels(query) ==
    {l \in {"last_90_days", "last_quarter", "q3", "last_month", "last_year"} :
        CASE l = "last_90_days" ->
                 \E i \in 1..(Len(query) - 2) :
                     /\ query[i] \in {"last", "past"}
                     /\ query[i + 1] = "90"
                     /\ query[i + 2] = "days"
          [] l = "last_quarter" ->
                 Adjacent({"last", "previous", "q3"}, "quarter", query)
          [] l = "q3" ->
                 InQuery("q3", query) \/ Adjacent({"quarter"}, "3", query)
          [] l = "last_month" -> Adjacent({"last", "past"}, "month", query)
          [] l = "last_year" -> Adjacent({"last", "past"}, "year", query)}

_parse_natural_language_query_fallback(query) ==
    LET hit == {i \in DOMAIN ControlPatterns :
                   \E kw \in ControlPatterns[i].keywords : InQuery(kw, query)}
    IN [control_keywords |-> {ControlPatterns[i].type : i \in hit},
        time_keywords |-> TimeLabels(query),
        source_keywords |->
            {s \in {"SWIFT", "CHAPS", "FPS"} :
                \/ s = "SWIFT" /\ InQuery("swift", query)
                \/ s = "CHAPS" /\ InQuery("chaps", query)
                \/ s = "FPS" /\ InQuery("fps", query)},
        action |->
            IF \E w \in {"generate", "create", "assurance", "pack", "report"} :
                   InQuery(w, query)
            THEN "generate_pack" ELSE "search",
        search_terms |->
            UNION {{kw \in ControlPatterns[i].keywords : InQuery(kw, query)} :
                      i \in hit}]

\* what a call returns: the value, the cache it leaves, whether the provider
\* was called and whether it raised
Answer(value, c, called, raised) ==
    [value |-> value, cache |-> c, called |-> called, raised |-> raised]

\* replies of the provider to a parse request: it raises, or answers with an
\* intent (after the setdefault calls)
ParseReplies ==
    {[kind |-> "error",
      intent |-> _parse_natural_language_query_fallback(<<>>)]}
    \cup
    {[kind |-> "json",
      intent |-> [control_keywords |-> {"mfa"}, time_keywords |-> tk,
                  source_keywords |-> {}, action |-> "search",
                  search_terms |-> {"mfa"}]] :
        tk \in {{"q3"}, {"all_time"}}}

\* ai_cache._generate_key('parse_query', query)
ParseKey(query) == <<"parse_query", query>>

_parse_natural_language_query_with_ai(c, t, query, reply) ==
    IF ~ aiOn
    THEN Answer(Some(_parse_natural_language_query_fallback(query)), c,
                FALSE, FALSE)
    ELSE LET cached_result == AICache_get(c, t, ParseKey(query))
             c1 == AfterGet(c, t, ParseKey(query))
         IN IF cached_result # None
            THEN Answer(cached_result, c1, FALSE, FALSE)
            ELSE IF reply.kind = "error"
            THEN Answer(Some(_parse_natural_language_query_fallback(query)),
                        c1, TRUE, TRUE)
            ELSE Answer(Some(reply.intent),
                        AICache_set(c1, t, ParseKey(query), reply.intent,
                                    Some(ParseTtl)),
                        TRUE, FALSE)

\* scores are in hundredths
FallbackBase == 50

FallbackStep == 10

FullScore == 100

\* sum(1 for word in query_lower.split() if word in content_lower)
WordMatches(query, content) ==
    Cardinality({i \in 1..Len(query) :
                    \E j \in 1..Len(content) : content[j] = query[i]})

\* min(0.5 + (matches * 0.1), 1.0)
FallbackRelevance(query, content) ==
    Min(FallbackBase + WordMatches(query, content) * FallbackStep, FullScore)

\* mutant: the AI score is stored as the provider gave it
ClampScore_Unclamped(score) == score

\* max(0.0, min(1.0, score))
ClampScore(score) == Max(0, Min(FullScore, score))

\* replies of the provider to a scoring request: it raises, its answer
\* cannot be read as a number, or it carries a relevance_score
ScoreReplies ==
    {[kind |-> "error", score |-> 0], [kind |-> "not_a_number", score |-> 0]}
    \cup [kind : {"json"}, score : {-20, 20, 30, 150}]

\* _generate_key('relevance_score', query, content_hash, item_type)
ScoreKey(query, content, item_type) ==
    <<"relevance_score", query, calculate_content_hash(content), item_type>>

\* mutant: the fallback score of a failed provider call is cached
_calculate_relevance_score_with_ai_CachesFallback(c, t, query, content, item_type, reply) ==
    IF ~ aiOn
    THEN Answer(Some(FallbackRelevance(query, content)), c, FALSE, FALSE)
    ELSE LET key == ScoreKey(query, content, item_type)
             cached_score == AICache_get(c, t, key)
             c1 == AfterGet(c, t, key)
         IN IF cached_score # None
            THEN Answer(cached_score, c1, FALSE, FALSE)
            ELSE IF reply.kind # "json"
            THEN Answer(Some(FallbackRelevance(query, content)),
                        AICache_set(c1, t, key,
                                    FallbackRelevance(query, content),
                                    Some(ScoreTtl)),
                        TRUE, TRUE)
            ELSE Answer(Some(ClampScore(reply.score)),
                        AICache_set(c1, t, key, ClampScore(reply.score),
                                    Some(ScoreTtl)),
                        TRUE, FALSE)

_calculate_relevance_score_with_ai(c, t, query, content, item_type, reply) ==
    IF ~ aiOn
    THEN Answer(Some(FallbackRelevance(query, content)), c, FALSE, FALSE)
    ELSE LET key == ScoreKey(query, content, item_type)
             cached_score == AICache_get(c, t, key)
             c1 == AfterGet(c, t, key)
         IN IF cached_score # None
            THEN Answer(cached_score, c1, FALSE, FALSE)
            ELSE IF reply.kind # "json"
            THEN Answer(Some(FallbackRelevance(query, content)), c1,
                        TRUE, TRUE)
            ELSE Answer(Some(ClampScore(reply.score)),
                        AICache_set(c1, t, key, ClampScore(reply.score),
                                    Some(ScoreTtl)),
                        TRUE, FALSE)

\* replies of the provider to a summary request
SummaryReplies == {[kind |-> "error"], [kind |-> "text"]}

\* the summary returned without the provider: no items, or no provider
NoItemsSummary == "No evidence items were found"

NotConfiguredSummary(n) == <<"Found", n, "OpenAI is not configured">>

\* _generate_key('summarize_evidence', query, evidence_signature)
SummaryKey(query, items) == <<"summarize_evidence", query, items>>

summarize_evidence_with_ai(c, t, query, items, reply) ==
    IF items = <<>> THEN Answer(Some(NoItemsSummary), c, FALSE, FALSE)
    ELSE IF ~ aiOn
    THEN Answer(Some(NotConfiguredSummary(Len(items))), c, FALSE, FALSE)
    ELSE LET key == SummaryKey(query, items)
             cached_summary == AICache_get(c, t, key)
             c1 == AfterGet(c, t, key)
         IN IF cached_summary # None
            THEN Answer(cached_summary, c1, FALSE, FALSE)
            ELSE IF reply.kind = "error"
            THEN Answer(None, c1, TRUE, TRUE)
            ELSE Answer(Some("ai_summary"),
                        AICache_set(c1, t, key, "ai_summary", Some(ParseTtl)),
                        TRUE, FALSE)

\* the result of a call is returned and its effects on the cache and on the
\* provider take place
Return(op, key, answer) ==
    /\ answer.called => calls < MaxCalls
    /\ out' = [op |-> op, key |-> key, value |-> answer.value,
               called |-> answer.called, raised |-> answer.raised]
    /\ cache' = answer.cache
    /\ calls' = IF answer.called THEN calls + 1 ELSE calls
    /\ UNCHANGED <<clock, vaultVars, ing, sess, packs, packFsVars, run, served,
                   evidence, dojoVars, qry, history, aiOn, now>>

ParseQuery(query, reply) ==
    Return("parse", ParseKey(query),
           _parse_natural_language_query_with_ai(cache, now, query, reply))

ScoreItem(query, content, item_type, reply) ==
    Return("score", ScoreKey(query, content, item_type),
           _calculate_relevance_score_with_ai(cache, now, query, content,
                                              item_type, reply))

Summarize(query, items, reply) ==
    Return("summarize", SummaryKey(query, items),
           summarize_evidence_with_ai(cache, now, query, items, reply))

\* queries, item contents and item lists of the calls
TelQueries == {<<"mfa", "last", "quarter">>, <<"denied", "past", "year">>}

TelContents == {<<"mfa", "denied">>}

TelItemLists == {<<>>, <<1>>}

NextTelescope ==
    \/ \E q \in TelQueries, reply \in ParseReplies : ParseQuery(q, reply)
    \/ \E q \in TelQueries, c \in TelContents, reply \in ScoreReplies :
          ScoreItem(q, c, "log", reply)
    \/ \E q \in TelQueries, items \in TelItemLists, reply \in SummaryReplies :
          Summarize(q, items, reply)
    \/ CacheClearCall
    \/ \E t \in ExpiryInstants(cache) : Advance(t)

\* the AI-backed steps with or without the provider configured
InitAi ==
    /\ InitVault
    /\ InitDojo
    /\ InitTelescope
    /\ aiOn \in BOOLEAN

SpecTelescope == InitAi /\ [][NextTelescope]_vars

----------------------------------------------------------------------------------------------------------------------------------------------------
(* Telescope: query_evidence *)

\* requests a model run of query_evidence sends to the AI provider at most
MaxQueryCalls == 3

\* rows the query history may hold in a run
MaxHistory == 2

\* timedelta(days=1) in seconds, the unit of time.time()
Day == 24 * 60 * 60

QuarterDays == 90

MonthDays == 30

\* relevance below which an item is dropped, in hundredths
RelevanceFloor == 30

\* search_keywords[:5]
KeywordLimit == 5

QuarterLabels == {"last_90_days", "q3", "last_quarter"}

\* mutant: every window is the 30 day default
_calculate_time_range_AlwaysMonth(time_keywords, t) == <<t - MonthDays * Day, t>>

\* start and end for the time keywords, t being datetime.utcnow()
_calculate_time_range(time_keywords, t) ==
    IF time_keywords \cap QuarterLabels # {}
    THEN <<t - QuarterDays * Day, t>>
    ELSE IF "last_month" \in time_keywords
    THEN <<t - MonthDays * Day, t>>
    ELSE <<t - MonthDays * Day, t>>

\* if not time_range_start or not time_range_end: both are recomputed
ResolveWindow(time_range_start, time_range_end, intent, t) ==
    IF time_range_start = None \/ time_range_end = None
    THEN _calculate_time_range(intent.time_keywords, t)
    ELSE <<time_range_start[1], time_range_end[1]>>

\* rows of raw_logs and raw_documents at the time of the queries; content and
\* extracted_text are shorter than the 500 character preview
StoredLogs ==
    {[id |-> 1, source |-> "SWIFT", ingested_at |-> 0 - 10 * Day,
      content |-> <<"mfa", "denied">>],
     [id |-> 2, source |-> "syslog", ingested_at |-> 0 - 60 * Day,
      content |-> <<"mfa">>]}

StoredDocs ==
    {[id |-> 1, source |-> "policy", ingested_at |-> 0 - 20 * Day,
      content |-> <<"mfa">>],
     [id |-> 2, source |-> "policy", ingested_at |-> 0 - 100 * Day,
      content |-> <<"mfa", "denied", "quarter">>]}

\* intent.get('search_terms', []) or intent.get('control_keywords', []), cut
\* to its first five entries
SearchKeywords(intent) ==
    LET all == IF intent.search_terms # {} THEN intent.search_terms
               ELSE intent.control_keywords
    IN {K \in SUBSET all : Cardinality(K) = Min(KeywordLimit, Cardinality(all))}

InWindow(r, start, end) == r.ingested_at >= start /\ r.ingested_at <= end

\* or_(content.ilike('%keyword%') ...), absent without keywords
KeywordFilter(r, keywords) ==
    keywords # {} => \E kw \in keywords : InQuery(kw, r.content)

\* .limit(100) of the select of the logs
LogLimit == 100

\* .limit(50) of the select of the documents
DocLimit == 50

\* the sets of k rows a select may leave out of the rows that match
RECURSIVE Omissions(_, _)
Omissions(rows, k) ==
    IF k = 0 THEN {{}}
    ELSE {o \cup {r} : o \in Omissions(rows, k - 1), r \in rows}
         \ Omissions(rows, k - 1)

\* select(...).where(...).limit(limit): no ORDER BY, so which rows of a
\* larger match are returned is up to the database
Limited(rows, limit) ==
    {rows \ o : o \in Omissions(rows, Max(Cardinality(rows) - limit, 0))}

\* select(RawLog).where(and_(*log_conditions))
LogRows(intent, keywords, start, end) ==
    {r \in StoredLogs :
        /\ InWindow(r, start, end)
        /\ intent.source_keywords # {} => r.source \in intent.source_keywords
        /\ KeywordFilter(r, keywords)}

\* select(RawDocument).where(and_(*doc_conditions))
DocRows(keywords, start, end) ==
    {r \in StoredDocs : InWindow(r, start, end) /\ KeywordFilter(r, keywords)}

\* kw.upper().replace('-', '_')
ControlIdOf(kw) ==
    CASE kw = "mfa" -> "MFA"
      [] kw = "access" -> "ACCESS"
      [] kw = "encryption" -> "ENCRYPTION"
      [] kw = "audit" -> "AUDIT"
      [] kw = "logging" -> "LOGGING"
      [] kw = "monitoring" -> "MONITORING"
      [] kw = "backup" -> "BACKUP"
      [] kw = "incident-response" -> "INCIDENT_RESPONSE"
      [] kw = "AC-001" -> "AC_001"
      [] OTHER -> kw

\* rows linked by an evidence object of a searched control, inside the
\* window and not among the items yet
LinkedRows(table, kind, intent, start, end, items) ==
    {r \in table :
        /\ \E eo \in evidence :
              /\ eo.control_id \in {ControlIdOf(kw) : kw \in intent.control_keywords}
              /\ References(eo, kind, r.id)
        /\ InWindow(r, start, end)
        /\ ~ \E i \in 1..Len(items) :
                items[i].id = r.id /\ items[i].type = kind}

\* the orders in which a select without ORDER BY may return its rows
Orderings(S) ==
    {q \in [1..Cardinality(S) -> S] :
        \A i, j \in 1..Cardinality(S) : i # j => q[i] # q[j]}

\* for row in rows: score it and append the item; the cache and the number
\* of provider calls are threaded through the calls
RECURSIVE ScoreRows(_, _, _, _, _, _)
ScoreRows(rows, i, item_type, query, replies, acc) ==
    IF i > Len(rows) THEN acc
    ELSE LET a == _calculate_relevance_score_with_ai(
                      acc.cache, now, query, rows[i].content, item_type,
                      replies[i])
         IN ScoreRows(rows, i + 1, item_type, query, replies,
                      [items |-> Append(acc.items,
                                        [type |-> item_type, id |-> rows[i].id,
                                         relevance_score |-> a.value[1]]),
                       cache |-> a.cache,
                       calls |-> IF a.called THEN acc.calls + 1
                                 ELSE acc.calls])

\* list.sort(key=relevance_score, reverse=True): stable, highest first
RECURSIVE SortByScore(_)
SortByScore(items) ==
    IF items = <<>> THEN <<>>
    ELSE LET top == CHOOSE i \in 1..Len(items) :
                       /\ \A j \in 1..Len(items) :
                             items[j].relevance_score <= items[i].relevance_score
                       /\ \A j \in 1..(i - 1) :
                             items[j].relevance_score < items[i].relevance_score
         IN <<items[top]>> \o
            SortByScore(SubSeq(items, 1, top - 1) \o
                        SubSeq(items, top + 1, Len(items)))

\* [item for item in evidence_items if item['relevance_score'] >= 0.3]
AboveFloor(item) == item.relevance_score >= RelevanceFloor

\* the query is parsed and its window resolved; the select of the logs is sent
QueryStart(query, time_range_start, time_range_end, reply) ==
    /\ qry.pc \in {"idle", "done", "failed"}
    /\ Len(history) < MaxHistory
    /\ LET a == _parse_natural_language_query_with_ai(cache, now, query, reply)
           intent == a.value[1]
           range == ResolveWindow(time_range_start, time_range_end, intent, now)
       IN /\ a.called => calls < MaxQueryCalls
          /\ qry' = [pc |-> "logs", query |-> query,
                     given |-> <<time_range_start, time_range_end>>,
                     at |-> now, intent |-> intent,
                     time_range_start |-> range[1],
                     time_range_end |-> range[2],
                     scored |-> <<>>, evidence_items |-> <<>>]
          /\ cache' = a.cache
          /\ calls' = IF a.called THEN calls + 1 ELSE calls
    /\ UNCHANGED <<clock, vaultVars, ing, sess, packs, packFsVars, run, served,
                   evidence, dojoVars, aiOn, now, out, history>>

\* the logs arrive and are scored; the select of the documents is sent
QueryLogs ==
    /\ qry.pc = "logs"
    /\ \E keywords \in SearchKeywords(qry.intent) :
       \E kept \in Limited(LogRows(qry.intent, keywords, qry.time_range_start,
                                   qry.time_range_end), LogLimit) :
       \E rows \in Orderings(kept) :
       \E replies \in [1..Len(rows) -> ScoreReplies] :
          LET r == ScoreRows(rows, 1, "log", qry.query, replies,
                             [items |-> <<>>, cache |-> cache, calls |-> calls])
          IN /\ r.calls <= MaxQueryCalls
             /\ qry' = [qry EXCEPT !.pc = "docs", !.scored = r.items]
             /\ cache' = r.cache
             /\ calls' = r.calls
    /\ UNCHANGED <<clock, vaultVars, ing, sess, packs, packFsVars, run, served,
                   evidence, dojoVars, aiOn, now, out, history>>

TelescopeQueryRow_ZeroCount(query, intent, evidence_items) ==
    [query |-> query, interpreted_intent |-> intent, results_count |-> 0]

\* the row of telescope_queries a query leaves
TelescopeQueryRow(query, intent, evidence_items) ==
    [query |-> query, interpreted_intent |-> intent,
     results_count |-> Len(evidence_items)]

\* the documents arrive and are scored, the rows linked to the searched
\* controls are added, the items are sorted and filtered, the query is saved
\* to the history and the result returned; when the commit of the history
\* row fails the call raises and the row is not kept
QueryDocs ==
    /\ qry.pc = "docs"
    /\ \E keywords \in SearchKeywords(qry.intent) :
       \E kept \in Limited(DocRows(keywords, qry.time_range_start,
                                   qry.time_range_end), DocLimit) :
       \E rows \in Orderings(kept) :
       \E replies \in [1..Len(rows) -> ScoreReplies] :
          LET d == ScoreRows(rows, 1, "document", qry.query, replies,
                             [items |-> qry.scored, cache |-> cache,
                              calls |-> calls])
          IN \E llogs \in Orderings(LinkedRows(StoredLogs, "log", qry.intent,
                                               qry.time_range_start,
                                               qry.time_range_end, d.items)) :
             \E lreplies \in [1..Len(llogs) -> ScoreReplies] :
                LET l == ScoreRows(llogs, 1, "log", qry.query, lreplies, d)
                IN \E ldocs \in Orderings(LinkedRows(StoredDocs, "document",
                                                     qry.intent,
                                                     qry.time_range_start,
                                                     qry.time_range_end,
                                                     l.items)) :
                   \E dreplies \in [1..Len(ldocs) -> ScoreReplies] :
                      LET r == ScoreRows(ldocs, 1, "document", qry.query,
                                         dreplies, l)
                          evidence_items == SelectSeq(SortByScore(r.items),
                                                      AboveFloor)
                      IN /\ r.calls <= MaxQueryCalls
                         /\ cache' = r.cache
                         /\ calls' = r.calls
                         /\ \E committed \in BOOLEAN :
                            IF committed
                            THEN /\ history' =
                                      Append(history,
                                             TelescopeQueryRow(qry.query,
                                                               qry.intent,
                                                               evidence_items))
                                 /\ qry' = [qry EXCEPT
                                       !.pc = "done", !.scored = r.items,
                                       !.evidence_items = evidence_items]
                            ELSE /\ history' = history
                                 /\ qry' = [qry EXCEPT
                                       !.pc = "failed", !.scored = r.items]
    /\ UNCHANGED <<clock, vaultVars, ing, sess, packs, packFsVars, run, served,
                   evidence, dojoVars, aiOn, now, out>>

\* explicit bounds of the window a caller may pass
GivenStarts == {None, Some(0 - 120 * Day)}

GivenEnds == {None, Some(0 - 50 * Day)}

NextQuery ==
    \/ \E q \in TelQueries, s \in GivenStarts, e \in GivenEnds,
          reply \in ParseReplies : QueryStart(q, s, e, reply)
    \/ QueryLogs
    \/ QueryDocs

\* instants at which the queries of a run are made
QueryInstants == {0, MaxNow}

\* the queries are made at some instant, with or without the provider
\* configured
InitQuery ==
    /\ InitVault
    /\ InitDojo
    /\ now \in QueryInstants
    /\ cache = {}
    /\ calls = 0
    /\ out = NoOut
    /\ qry = NoQuery
    /\ history = <<>>
    /\ aiOn \in BOOLEAN

SpecQuery == InitQuery /\ [][NextQuery]_vars

-----------------------------------------------------------------------------
(* Telescope: perform_gap_analysis *)

\* evidence items passed to one model call of perform_gap_analysis at most
MaxGapItems == 2

\* temporal_keywords.items(), in insertion order
TemporalKeywords ==
    << [keyword |-> "annual", days |-> 365],
       [keyword |-> "yearly", days |-> 365],
       [keyword |-> "quarterly", days |-> 90],
       [keyword |-> "monthly", days |-> 30],
       [keyword |-> "weekly", days |-> 7],
       [keyword |-> "daily", days |-> 1] >>

\* `word in text` for a word without whitespace and a text given by its
\* whitespace-separated tokens, all in lower case
InText(word, text) == \E i \in 1..Len(text) : IsSubstring(word, text[i])

\* required_frequency_days: the days of the first keyword found in the
\* question; 0 stands for None
RequiredFrequency(question) ==
    LET hits == {k \in 1..Len(TemporalKeywords) :
                    InText(TemporalKeywords[k].keyword, question)}
    IN IF hits = {} THEN 0
       ELSE TemporalKeywords[CHOOSE k \in hits : \A j \in hits : k <= j].days

\* mutant: every word of the question is looked for
FirstWords_All(question) == question

\* question_lower.split()[:3]
FirstWords(question) == SubSeq(question, 1, Min(3, Len(question)))

\* the positions of the items whose content_preview holds one of the words
RelevantEvidence(question, evidence_items) ==
    {i \in 1..Len(evidence_items) :
        \E w \in 1..Len(FirstWords(question)) :
            InText(FirstWords(question)[w], evidence_items[i].content_preview)}

\* (datetime.utcnow() - most_recent).days
DaysOld(t, most_recent) == (t - most_recent) \div Day

\* mutant: twice the requirement is already severe
TemporalSeverity_AtTwice(days_old, required) ==
    IF days_old >= required * 2 THEN "high" ELSE "medium"

\* "high" if days_old > required_frequency_days * 2 else "medium"
TemporalSeverity(days_old, required) ==
    IF days_old > required * 2 THEN "high" ELSE "medium"

\* the body of the loop over the assessment questions: the gaps one question
\* adds
GapsForQuestion(control_id, question, evidence_items, t) ==
    LET required == RequiredFrequency(question)
        relevant == RelevantEvidence(question, evidence_items)
        dated == {i \in relevant : evidence_items[i].ingested_at # None}
    IN IF relevant = {}
       THEN << [type |-> "coverage_gap", control_id |-> control_id,
                question |-> question, severity |-> "high"] >>
       ELSE IF required = 0 \/ dated = {}
       THEN <<>>
       ELSE LET most_recent ==
                    evidence_items[CHOOSE i \in dated : \A j \in dated :
                        evidence_items[j].ingested_at[1]
                            <= evidence_items[i].ingested_at[1]].ingested_at[1]
                days_old == DaysOld(t, most_recent)
            IN IF days_old > required
               THEN << [type |-> "temporal_gap", control_id |-> control_id,
                        question |-> question,
                        severity |-> TemporalSeverity(days_old, required),
                        required_frequency_days |-> required,
                        days_overdue |-> days_old - required] >>
               ELSE <<>>

\* for question in assessment_questions
RECURSIVE QuestionLoop(_, _, _, _, _)
QuestionLoop(control_id, questions, i, evidence_items, t) ==
    IF i > Len(questions) THEN <<>>
    ELSE GapsForQuestion(control_id, questions[i], evidence_items, t)
             \o QuestionLoop(control_id, questions, i + 1, evidence_items, t)

\* get_all_controls(): SWIFT-2.7 of the library, and a control whose
\* questions carry the other frequency words; questions in lower case
GapControls ==
    {[control_id |-> "SWIFT-2.7",
      assessment_questions |->
          << <<"are", "vulnerability", "scans", "performed", "quarterly?">>,
             <<"are", "critical", "vulnerabilities", "remediated", "within",
               "30", "days?">>,
             <<"are", "scan", "results", "reviewed", "and", "documented?">> >>],
     [control_id |-> "T-1",
      assessment_questions |->
          << <<"is", "testing", "done", "annually?">>,
             <<"are", "daily", "backups", "reviewed", "yearly?">>,
             <<"is", "patching", "monthly?">>,
             <<"are", "logs", "checked", "weekly?">>,
             <<"is", "monitoring", "daily?">>,
             <<"is", "mfa", "enforced?">> >>]}

\* the gaps perform_gap_analysis returns; control_id is None or Some(id)
perform_gap_analysis(control_id, evidence_items, t) ==
    LET known == {c \in GapControls : control_id = Some(c.control_id)}
    IN (IF known # {}
        THEN QuestionLoop(control_id[1],
                          (CHOOSE c \in known : TRUE).assessment_questions,
                          1, evidence_items, t)
        ELSE <<>>)
       \o
       (IF control_id = None /\ evidence_items = <<>>
        THEN << [type |-> "coverage_gap", control_id |-> "none",
                 question |-> <<"general", "evidence", "coverage">>,
                 severity |-> "high"] >>
        ELSE <<>>)

\* ages in days of the evidence of the calls
GapAges == {1, 2, 91, 400, 731}

GapPreviews ==
    {<<"rescans", "completed">>, <<"mfa", "reviewed">>,
     <<"this", "daily", "backup">>}

GapItems ==
    {[content_preview |-> c, ingested_at |-> at] :
        c \in GapPreviews,
        at \in {None} \cup {Some(0 - a * Day) : a \in GapAges}}

GapControlIds == {None, Some("SWIFT-2.7"), Some("T-1"), Some("ZZ-999")}

\* the calls of perform_gap_analysis
GapRequests ==
    {[op |-> "gap_request", control_id |-> c, evidence_items |-> items] :
        c \in GapControlIds, items \in SeqsUpTo(GapItems, MaxGapItems)}

\* one call: the gaps are computed and returned
GapAnalysisCall ==
    /\ out.op = "gap_request"
    /\ out' = [op |-> "gap", control_id |-> out.control_id,
               evidence_items |-> out.evidence_items, at |-> now,
               gaps |-> perform_gap_analysis(out.control_id,
                                             out.evidence_items, now)]
    /\ UNCHANGED <<clock, vaultVars, ing, sess, packs, packFsVars, run, served,
                   evidence, dojoVars, qry, history, aiOn, now, cache, calls>>

NextGap == GapAnalysisCall

\* a call of perform_gap_analysis is pending, at some instant
InitGap ==
    /\ InitVault
    /\ InitDojo
    /\ now \in QueryInstants
    /\ cache = {}
    /\ calls = 0
    /\ out \in GapRequests
    /\ qry = NoQuery
    /\ history = <<>>
    /\ aiOn = FALSE

SpecGap == InitGap /\ [][NextGap]_vars

----------------------------------------------------------------------------
(* Telescope: the selects of query_evidence on large tables *)

\* rows in the time window beyond the limit of the select
MaxExcess == 1

\* a query whose intent has no search terms, no control keywords and no
\* source keywords is about to select from a table; in_range are the ids of
\* the rows whose ingested_at lies in the resolved window
SelectRequests ==
    {[op |-> "select_request", table |-> "raw_logs", in_range |-> 1..n] :
        n \in 0..(LogLimit + MaxExcess)}
    \cup
    {[op |-> "select_request", table |-> "raw_documents", in_range |-> 1..n] :
        n \in 0..(DocLimit + MaxExcess)}

\* log_stmt = select(RawLog).where(and_(ingested_at >= start,
\* ingested_at <= end)).limit(100); the rows returned are the ones scored
SelectLogs ==
    /\ out.op = "select_request"
    /\ out.table = "raw_logs"
    /\ \E rows \in Limited(out.in_range, LogLimit) :
          out' = [op |-> "select", table |-> out.table,
                  in_range |-> out.in_range, rows |-> rows]
    /\ UNCHANGED <<clock, vaultVars, ing, sess, packs, packFsVars, run, served,
                   evidence, dojoVars, qry, history, aiOn, now, cache, calls>>

\* doc_stmt = select(RawDocument).where(and_(ingested_at >= start,
\* ingested_at <= end)).limit(50)
SelectDocs ==
    /\ out.op = "select_request"
    /\ out.table = "raw_documents"
    /\ \E rows \in Limited(out.in_range, DocLimit) :
          out' = [op |-> "select", table |-> out.table,
                  in_range |-> out.in_range, rows |-> rows]
    /\ UNCHANGED <<clock, vaultVars, ing, sess, packs, packFsVars, run, served,
                   evidence, dojoVars, qry, history, aiOn, now, cache, calls>>

NextSelect ==
    \/ SelectLogs
    \/ SelectDocs

InitSelect ==
    /\ InitVault
    /\ InitDojo
    /\ now = 0
    /\ cache = {}
    /\ calls = 0
    /\ out \in SelectRequests
    /\ qry = NoQuery
    /\ history = <<>>
    /\ aiOn = FALSE

SpecSelect == InitSelect /\ [][NextSelect]_vars

----------------------------------------------------------------------------
(* Telescope: query_evidence over logs the Dojo Mapper has linked *)

\* the evidence_objects table after map_log_to_controls has run on one of
\* the stored logs, or on none
MapperLinkages ==
    {{}} \cup
    {{[id |-> 1, control_id |-> m.control_id, log_id |-> r.id,
       document_id |-> 0, linkage_score |-> m.score, method |-> m.method]} :
        <<r, m>> \in {<<r, _match_control(
                               _extract_keywords_from_log(r.content),
                               r.content, reply)>> :
                         r \in StoredLogs, reply \in AiReplies}
                     \ (StoredLogs \X {NoMatch})}

\* what the parse step may be answered with when the query names a control:
\* the provider puts the control type or the control id among the control
\* keywords
ControlReplies ==
    ParseReplies \cup
    {[kind |-> "json",
      intent |-> [control_keywords |-> {c},
                  time_keywords |-> {"all_time"},
                  source_keywords |-> {}, action |-> "search",
                  search_terms |-> {"denied"}]] : c \in {"mfa", "AC-001"}}

NextLinked ==
    \/ \E q \in TelQueries, s \in GivenStarts, e \in GivenEnds,
          reply \in ControlReplies : QueryStart(q, s, e, reply)
    \/ QueryLogs
    \/ QueryDocs

InitLinked ==
    /\ InitVault
    /\ aiOn \in BOOLEAN
    /\ evidence \in MapperLinkages
    /\ nextEvidenceId = Cardinality(evidence) + 1
    /\ mapr = [m \in Mappers |-> IdleMap]
    /\ del = [d \in Deleters |-> IdleDel]
    /\ now = 0
    /\ cache = {}
    /\ calls = 0
    /\ out = NoOut
    /\ qry = NoQuery
    /\ history = <<>>

SpecLinked == InitLinked /\ [][NextLinked]_vars

-----
(* Properties *)

\* C1: whenever generate_assurance_pack returns successfully, the committed
\* record's pack_hash is the SHA-256 of the zip bytes found at its file_path
\* at that moment, whatever happened in the PDF-report and Excel steps.
C1_PackHashMatchesZip ==
    [][\A r \in Runs :
          (run[r].pc = "commit" /\ run'[r].pc = "done") =>
              \E p \in packs' \ packs :
                  /\ p.pack_id = run[r].pack_id
                  /\ zips'[p.file_path].exists
                  /\ p.pack_hash = PackHash(zips'[p.file_path])]_vars

\* C2: once an AssurancePack is committed, no later step (ingest, delete,
\* further pack generation, session route) changes the record or the bytes
\* of the zip at its file_path.
C2_CommittedPackImmutable ==
    [][\A p \in packs :
          /\ p \in packs'
          /\ zips'[p.file_path] = zips[p.file_path]]_vars

C5_WorkingDirGoneOnReturn ==
    [][\A r \in Runs :
          (/\ run[r].pc \in {"queried", "fetch", "fetch_docs", "commit",
                             "rollback"}
           /\ run'[r].pc \in {"done", "failed"})
          => ~ dirs'[run'[r].pack_id].exists]_vars

\* C6: after a successful generation the zip is the only artifact of the run
\* left under the packs path: neither the working directory nor any other
\* file the run created remains.
C6_OnlyZipRetained ==
    [][\A r \in Runs :
          (run[r].pc = "commit" /\ run'[r].pc = "done")
          => /\ zips'[run[r].pack_id].exists
             /\ ~ dirs'[run[r].pack_id].exists
             /\ run[r].pack_id \notin pdfs']_vars

\* C7: a request whose time range has start >= end, or spans more than ten
\* years, or whose merged evidence set is empty, is rejected; the rejection
\* creates no directory, no file and no AssurancePack record.
C7_RejectedBeforeAnythingIsCreated ==
    [][\A r \in Runs :
          (served' = served + 1)
          => /\ (\/ run'[r].start >= run'[r].end
                 \/ run'[r].end - run'[r].start > TenYearsDays
                 \/ run'[r].items = {})
                   => run'[r].pc = "rejected"
             /\ run'[r].pc = "rejected"
                   => /\ dirs' = dirs
                      /\ zips' = zips
                      /\ pdfs' = pdfs
                      /\ packs' = packs]_vars

C7_Witness ==
    \E r \in Runs :
        /\ run[r].pc = "rejected"
        /\ run[r].reason = "exceeds_10_years"
        /\ run[r].end - run[r].start = TenYearsDays + 1

\* C8: the copy step puts every requested item in exactly one of the copied
\* and the failed list, so success_count + failure_count is the number of
\* items requested; with at least one item copied the pack goes on to the
\* zip even though other items failed.
C8_CopyPartitionsItems ==
    [][\A r \in Runs :
          (/\ run[r].pc \in {"fetch", "fetch_docs"}
           /\ run'[r].pc \notin {"fetch", "fetch_docs"})
          => LET items == run[r].items
                 copied == run'[r].copied
                 failedKeys == {f[1] : f \in run'[r].failed}
             IN /\ copied \cup failedKeys = items
                /\ copied \cap failedKeys = {}
                /\ Cardinality(copied) + Cardinality(run'[r].failed)
                       = Cardinality(items)
                /\ copied # {}
                      => \/ /\ run'[r].pc = "commit"
                            /\ zips'[run[r].pack_id].exists
                         \/ /\ run'[r].pc = "failed"
                            /\ run'[r].reason = "zip"]_vars

C8_Witness ==
    \E r \in Runs :
        /\ run[r].pc = "commit"
        /\ run[r].copied # {}
        /\ run[r].failed # {}
        /\ zips[run[r].pack_id].exists

\* C9: an ingest (ingest_log or ingest_document) of bytes identical to those
\* of an already ingested record is rejected with the duplicate error naming
\* that record's id, whatever filename is given, and content is never held
\* by two records.
C9_DuplicateContentRejected ==
    [][/\ \A i \in Ingesters :
            (ing[i].pc = "idle" /\ ing'[i].pc # "idle")
            => \A rec \in rawLogs \cup rawDocs :
                  rec.bytes = ing'[i].bytes
                  => /\ ing'[i].pc = "duplicate"
                     /\ ing'[i].id = rec.id
       /\ \A a \in rawLogs' \cup rawDocs', b \in rawLogs' \cup rawDocs' :
            a.bytes = b.bytes => a = b]_vars

\* C10: for two concurrent requests ingesting identical content, in every
\* interleaving one commits and the other is rejected with the duplicate
\* error naming the committed record: a request that finishes while a record
\* of its kind and content is stored finishes as that duplicate.
C10_ConcurrentDuplicateRejected ==
    [][\A i \in Ingesters :
          (/\ ing[i].pc \in {"idle", "commit"}
           /\ ing'[i].pc \in {"ok", "duplicate", "error"})
          => \A rec \in Table(ing'[i].kind) :
                rec.bytes = ing'[i].bytes
                => /\ ing'[i].pc = "duplicate"
                   /\ ing'[i].id = rec.id]_vars

\* C11: for every committed log or document record, the SHA-256 of the bytes
\* of the file stored at its file_path is the record's content hash:
\* verify_file_integrity(file_path, record.hash) holds while the record exists.
C11_StoredFileMatchesHash ==
    /\ \A rec \in rawLogs :
          verify_file_integrity(logFiles, <<rec.hash, rec.filename>>, rec.hash)
    /\ \A rec \in rawDocs :
          verify_file_integrity(docFiles, <<rec.hash, rec.filename>>, rec.hash)

\* C12: after delete_log(id) or delete_document(id) succeeds, no linkage
\* references the deleted record, the record no longer exists and its file no
\* longer exists; records, files and linkages of other evidence are unchanged.
C12_DeleteCascades ==
    [][\A d \in Deleters :
          (del[d].pc = "selected" /\ del'[d].pc = "done")
          => LET kind == del[d].kind
                 id == del[d].id
                 rec == CHOOSE r \in Table(kind) : r.id = id
                 path == <<rec.hash, rec.filename>>
             IN /\ ~ \E e \in evidence' : References(e, kind, id)
                /\ ~ \E r \in rawLogs' \cup rawDocs' : r = rec
                /\ ~ FileExists(IF kind = "log" THEN logFiles' ELSE docFiles',
                                path)
                /\ \A e \in evidence :
                      ~ References(e, kind, id) => e \in evidence'
                /\ \A r \in rawLogs \cup rawDocs : r # rec =>
                      r \in rawLogs' \cup rawDocs'
                /\ \A f \in logFiles \cup docFiles : f[1] # path =>
                      f \in logFiles' \cup docFiles']_vars

\* C14: every linkage ever created, by the fallback matcher, by the AI
\* matcher or by a manual link, has a linkage score within [0,1].
C14_LinkageScoreInUnitInterval ==
    \A e \in evidence :
        /\ 0 <= e.linkage_score[1]
        /\ e.linkage_score[1] <= e.linkage_score[2]

\* C15: a map_log_to_controls or map_document_to_controls call creates at
\* most one linkage; a linkage of the fallback matcher has a score > 0.3, one
\* of the AI matcher a confidence >= 0.4; when nothing qualifies the call
\* returns normally, with an empty list and without writing a linkage.
C15_AtMostOneQualifiedLinkage ==
    [][/\ evidence' \ evidence # {}
             => \E m \in Mappers :
                   mapr[m].pc = "commit" /\ mapr'[m].pc = "done"
       /\ \A m \in Mappers :
             (mapr[m].pc = "commit" /\ mapr'[m].pc # "commit")
             => LET new == evidence' \ evidence
                IN /\ mapr'[m].pc = "done"
                   /\ Cardinality(new) <= 1
                   /\ Cardinality(new) = mapr'[m].created
                   /\ evidence \subseteq evidence'
                   /\ \A e \in new :
                         /\ e.method = "keyword" =>
                               10 * e.linkage_score[1] > 3 * e.linkage_score[2]
                         /\ e.method = "ai" =>
                               100 * e.linkage_score[1]
                                   >= 40 * e.linkage_score[2]]_vars

C15_Witness ==
    /\ \E e \in evidence : e.method = "keyword" /\ e.linkage_score = <<2, 5>>
    /\ \E m \in Mappers : mapr[m].pc = "done" /\ mapr[m].created = 0

\* C13: auto_tag returns at most one entry per control, and the entry's
\* confidence is the maximum of the confidences of all the matches the
\* source-pattern pass, the content-pattern scan and the keyword-density scan
\* found for that control.
C13_AutoTagKeepsMaxConfidence ==
    out.op = "auto_tag" =>
        LET found == SourceMatches(1, out.source)
                        \o (IF out.content # <<>>
                            THEN PatternMatches(1, out.content)
                                    \o KeywordMatches(1, out.content)
                            ELSE <<>>)
            tags == out.tags
        IN /\ \A a \in 1..Len(tags), b \in 1..Len(tags) :
                 tags[a].control_id = tags[b].control_id => a = b
           /\ \A a \in 1..Len(tags) :
                 /\ \E k \in 1..Len(found) :
                       /\ found[k].control_id = tags[a].control_id
                       /\ found[k].confidence = tags[a].confidence
                 /\ \A k \in 1..Len(found) :
                       found[k].control_id = tags[a].control_id
                       => found[k].confidence <= tags[a].confidence

\* C19: AICache.get never returns the value of an entry whose expiry time has
\* passed: a get for an expired key deletes the entry and returns a miss, a
\* get for an unexpired key returns the stored value and leaves the cache
\* unchanged; entries disappear only through such a get, through being
\* overwritten by set, or through clear, never by the passing of time alone.
C19_LazyEvictionOnly ==
    [][/\ (out'.op = "get" /\ (out' # out \/ cache' # cache))
            => LET held == {e \in cache : e.key = out'.key}
               IN /\ \A e \in held :
                        IF now > e.expires_at
                        THEN /\ out'.value = <<>>
                             /\ cache' = cache \ {e}
                        ELSE /\ out'.value = <<e.value>>
                             /\ cache' = cache
                  /\ held = {} => (out'.value = <<>> /\ cache' = cache)
       /\ \A e \in cache \ cache' :
             \/ out'.op = "get" /\ out'.key = e.key /\ now > e.expires_at
             \/ out'.op = "set" /\ out'.key = e.key
             \/ out'.op = "clear"
       /\ now' # now => cache' = cache]_vars

C19_Witness ==
    /\ out.op = "get"
    /\ out.value = <<>>
    /\ ~ \E e \in cache : e.key = out.key
    /\ \E e \in cache : e.key # out.key /\ now > e.expires_at
    /\ now > ScoreTtl

\* C16: when the AI provider is unavailable or raises an error, each
\* AI-backed step (here intent parsing, relevance scoring and summarization)
\* returns the result of its deterministic non-AI fallback; the error never
\* reaches the caller.
C16_AiFailureFallsBack ==
    (out.op \in {"parse", "score", "summarize"} /\ (~ aiOn \/ out.raised))
    => out.value =
         CASE out.op = "parse" ->
                  <<_parse_natural_language_query_fallback(out.key[2])>>
           [] out.op = "score" ->
                  <<FallbackRelevance(out.key[2], out.key[3][2])>>
           [] out.op = "summarize" ->
                  IF out.key[3] = <<>>
                  THEN <<NoItemsSummary>>
                  ELSE <<NotConfiguredSummary(Len(out.key[3]))>>

\* C20: with the AI path enabled, an intent-parsing or relevance-scoring call
\* made while the cache holds an unexpired entry for it returns the entry's
\* value without invoking the provider; a call that finds no unexpired entry
\* invokes the provider once and, when the provider answers, stores the
\* result it returns under a fresh expiry.
C20_CacheHitSkipsProvider ==
    [][(/\ aiOn
        /\ out'.op \in {"parse", "score"}
        /\ (out' # out \/ cache' # cache \/ calls' # calls))
       => LET live == {e \in cache :
                          e.key = out'.key /\ now <= e.expires_at}
              ttl == IF out'.op = "parse" THEN ParseTtl ELSE ScoreTtl
          IN IF live # {}
             THEN /\ \A e \in live : out'.value = <<e.value>>
                  /\ calls' = calls
                  /\ cache' = cache
             ELSE /\ calls' = calls + 1
                  /\ \/ out'.raised
                     \/ \E e \in cache' :
                           /\ e.key = out'.key
                           /\ out'.value = <<e.value>>
                           /\ e.expires_at = now + ttl]_vars

C20_Witness ==
    /\ aiOn
    /\ out.op = "score"
    /\ out.called
    /\ ~ out.raised
    /\ calls = 2
    /\ now = ScoreTtl + 1
    /\ cache = {[key |-> out.key, value |-> out.value[1],
                 expires_at |-> now + ScoreTtl]}

\* C17: query_evidence uses the explicit range when the caller supplies one;
\* otherwise its window ends at the current time and starts 90 days earlier
\* when the time keywords hold a quarter or 90-day label, and 30 days
\* earlier in every other case, also when no temporal keyword matched.
C17_WindowResolution ==
    qry.pc # "idle"
    => IF qry.given[1] # <<>> /\ qry.given[2] # <<>>
       THEN /\ qry.time_range_start = qry.given[1][1]
            /\ qry.time_range_end = qry.given[2][1]
       ELSE /\ qry.time_range_end = qry.at
            /\ qry.time_range_start =
                  IF \E k \in qry.intent.time_keywords :
                        k \in {"last_90_days", "q3", "last_quarter"}
                  THEN qry.at - 90 * 86400
                  ELSE qry.at - 30 * 86400

C17_Witness ==
    /\ qry.pc = "done"
    /\ qry.given = <<None, None>>
    /\ qry.intent.time_keywords = {"last_quarter"}
    /\ qry.at > 0
    /\ qry.time_range_start = qry.at - 90 * 86400
    /\ \E i \in 1..Len(qry.evidence_items) :
          qry.evidence_items[i].type = "log" /\ qry.evidence_items[i].id = 2

\* C18: the evidence_items query_evidence returns are exactly the scored
\* candidates whose relevance score is at least 0.3, in non-increasing order
\* of score, and every candidate's score lies in [0, 1], whether it came
\* from the AI or from the fallback scoring.
C18_FilteredSortedScores ==
    qry.pc = "done"
    => LET items == qry.evidence_items
           kept == {i \in 1..Len(qry.scored) :
                       qry.scored[i].relevance_score >= 30}
       IN /\ \A i \in 1..Len(qry.scored) :
                /\ qry.scored[i].relevance_score >= 0
                /\ qry.scored[i].relevance_score <= 100
          /\ Len(items) = Cardinality(kept)
          /\ \A i \in kept : \E j \in 1..Len(items) : items[j] = qry.scored[i]
          /\ \A i \in 1..(Len(items) - 1) :
                items[i].relevance_score >= items[i + 1].relevance_score

C18_Witness ==
    /\ aiOn
    /\ qry.pc = "done"
    /\ Len(qry.evidence_items) = 2
    /\ qry.evidence_items[1] # qry.scored[1]
    /\ qry.evidence_items[2].relevance_score = 30
    /\ qry.evidence_items[1].relevance_score > 30

\* C24: the PDF report renderer is invoked only after the pack hash is
\* final: the pack_hash the renderer is called with (the hash of the archive
\* as it stands before the report step) is the one the run goes on to persist
\* and write to the manifest; it is not recomputed afterwards.
C24_HashFinalBeforeReport ==
    [][\A r \in Runs :
          (/\ run[r].pc \in {"fetch", "fetch_docs"}
           /\ run'[r].pc = "commit"
           /\ run[r].pack_id \in pdfs')
          => \E extra \in {{}, {<<"reports", "swift_excel">>}} :
                run'[r].pack_hash =
                   PackHash(ZipOf(dirs[run[r].pack_id].entries
                                  \cup run'[r].copied \cup extra))]_vars

\* C28: any two generate_assurance_pack runs, also runs starting within the
\* same clock second, obtain distinct pack ids: a run never takes the id of a
\* committed pack or of another run, and so the rollback of a run never
\* changes the zip of an already committed pack.
C28_RunsNeverSharePackId ==
    [][\A r \in Runs :
          /\ (run[r].pc = "queried" /\ run'[r].pc # "queried")
             => /\ \A p \in packs : p.pack_id # run'[r].pack_id
                /\ \A o \in Runs \ {r} :
                      run[o].pc \in {"fetch", "fetch_docs", "commit", "rollback"}
                      => run[o].pack_id # run'[r].pack_id
          /\ (run[r].pc = "rollback" /\ run'[r].pc # "rollback")
             => \A p \in packs : zips'[p.file_path] = zips[p.file_path]]_vars

\* C29: for every committed AssurancePack the record's evidence_count, the
\* manifest's evidence_count and the manifest's files_copied are equal (each
\* being the number of evidence files copied into the archive), also after
\* partial copy failures and with a bundled SWIFT Excel file.
C29_EvidenceCountsAgree ==
    \A p \in packs :
        /\ p.meta_data.evidence_count = p.evidence_count
        /\ p.meta_data.files_copied = p.evidence_count

\* C30: an ingest_log or ingest_document call that fails leaves no new file
\* in the vault storage: when a request ends in an error, the file it wrote,
\* if it is still on disk, is the file at the file_path of a committed record
\* of its kind.
C30_FailedIngestLeavesNoFile ==
    [][\A i \in Ingesters :
          (ing[i].pc = "commit" /\ ing'[i].pc = "error")
          => LET kind == ing[i].kind
                 path == <<IngestHash(kind, ing[i].bytes), ing[i].filename>>
                 files == IF kind = "log" THEN logFiles' ELSE docFiles'
                 table == IF kind = "log" THEN rawLogs' ELSE rawDocs'
             IN FileExists(files, path)
                => \E rec \in table : <<rec.hash, rec.filename>> = path]_vars

\* C22: for a known control and a question with a frequency requirement of
\* R days (annual/yearly 365, quarterly 90, monthly 30, weekly 7, daily 1,
\* the first match in that order) whose most recent matching evidence is A
\* days old, perform_gap_analysis emits a temporal_gap iff A > R, with
\* days_overdue = A - R and severity high iff A > 2R, medium otherwise.
C22_TemporalGapRule ==
    out.op = "gap"
    => \A c \in GapControls :
          out.control_id = <<c.control_id>>
          => \A k \in 1..Len(c.assessment_questions) :
                LET q == c.assessment_questions[k]
                    last == q[Len(q)]
                    R == CASE last = "annually?" -> 365
                           [] last = "yearly?" -> 365
                           [] last = "quarterly?" -> 90
                           [] last = "monthly?" -> 30
                           [] last = "weekly?" -> 7
                           [] last = "daily?" -> 1
                           [] OTHER -> 0
                    items == out.evidence_items
                    ages == {(out.at - items[i].ingested_at[1]) \div 86400 :
                                i \in {j \in RelevantEvidence(q, items) :
                                          items[j].ingested_at # <<>>}}
                    tg == {g \in 1..Len(out.gaps) :
                              /\ out.gaps[g].type = "temporal_gap"
                              /\ out.gaps[g].question = q}
                IN IF R = 0 \/ ages = {}
                   THEN tg = {}
                   ELSE LET A == CHOOSE a \in ages : \A b \in ages : a <= b
                        IN /\ Cardinality(tg) = IF A > R THEN 1 ELSE 0
                           /\ \A g \in tg :
                                 /\ out.gaps[g].required_frequency_days = R
                                 /\ out.gaps[g].days_overdue = A - R
                                 /\ out.gaps[g].severity =
                                       IF A > 2 * R THEN "high" ELSE "medium"

C22_Witness ==
    /\ out.op = "gap"
    /\ out.at > 0
    /\ Len(out.evidence_items) = 2
    /\ \E g \in 1..Len(out.gaps) :
          /\ out.gaps[g].type = "temporal_gap"
          /\ out.gaps[g].question = <<"is", "testing", "done", "annually?">>
          /\ out.gaps[g].days_overdue = 35
          /\ out.gaps[g].severity = "medium"

\* C23: for a known control, perform_gap_analysis emits a coverage_gap of
\* severity high for a question exactly when no evidence item's content
\* excerpt contains any of the question's first three words; with no control
\* id it emits exactly one coverage_gap when the evidence set is empty and no
\* gap at all otherwise.
C23_CoverageGapRule ==
    out.op = "gap"
    => /\ \A c \in GapControls :
             out.control_id = <<c.control_id>>
             => \A k \in 1..Len(c.assessment_questions) :
                   LET q == c.assessment_questions[k]
                       items == out.evidence_items
                       found == \E i \in 1..Len(items) :
                                   \E w \in 1..3 :
                                      /\ w <= Len(q)
                                      /\ InText(q[w], items[i].content_preview)
                       cg == {g \in 1..Len(out.gaps) :
                                 /\ out.gaps[g].type = "coverage_gap"
                                 /\ out.gaps[g].question = q}
                   IN /\ Cardinality(cg) = IF found THEN 0 ELSE 1
                      /\ \A g \in cg : out.gaps[g].severity = "high"
       /\ out.control_id = <<>>
             => IF out.evidence_items = <<>>
                THEN /\ Len(out.gaps) = 1
                     /\ out.gaps[1].type = "coverage_gap"
                ELSE out.gaps = <<>>

C23_Witness ==
    /\ out.op = "gap"
    /\ out.control_id = <<"SWIFT-2.7">>
    /\ out.evidence_items # <<>>
    /\ \E g \in 1..Len(out.gaps) :
          /\ out.gaps[g].type = "coverage_gap"
          /\ out.gaps[g].question =
                <<"are", "critical", "vulnerabilities", "remediated",
                  "within", "30", "days?">>
    /\ ~ \E g \in 1..Len(out.gaps) :
            /\ out.gaps[g].type = "coverage_gap"
            /\ out.gaps[g].question =
                  <<"are", "vulnerability", "scans", "performed", "quarterly?">>

\* C21: a query_evidence call that returns appends exactly one row to the
\* query history, holding the query, the parsed intent and the number of
\* evidence items returned; no other step adds, changes or removes a row.
C21_OneHistoryRowPerReturn ==
    [][IF qry.pc = "docs" /\ qry'.pc = "done"
       THEN history' = Append(history,
                              [query |-> qry'.query,
                               interpreted_intent |-> qry'.intent,
                               results_count |-> Len(qry'.evidence_items)])
       ELSE history' = history]_vars

\* two identical queries have returned with the provider configured, the
\* first parsed and scored by the provider, the second parsed and scored
\* from the cache, and each has left its row
C21_Witness ==
    /\ aiOn
    /\ qry.pc = "done"
    /\ Len(history) = 2
    /\ calls = 3
    /\ history[1].query = history[2].query
    /\ history[1].results_count = 2
    /\ history[2].results_count = 2

\* C26: with no search terms, no control keywords and no source keywords
\* every log and every document ingested inside the resolved window is
\* retrieved, whatever the number of stored records.
C26_NoneInRangeLeftOut ==
    out.op = "select" => out.rows = out.in_range

\* C25: a log the Dojo Mapper linked to a control named by a control
\* keyword of the intent, ingested inside the resolved window, is among the
\* scored candidates of the query, and no (type, id) pair is scored twice.
C25_LinkedEvidenceBackfilled ==
    qry.pc = "done" =>
       /\ \A eo \in evidence, r \in StoredLogs :
             ( /\ eo.log_id = r.id
               /\ \E kw \in qry.intent.control_keywords :
                     \/ eo.control_id = kw
                     \/ \E c \in DOMAIN CONTROL_MAPPINGS :
                           /\ CONTROL_MAPPINGS[c].control_id = eo.control_id
                           /\ kw \in CONTROL_MAPPINGS[c].keywords
               /\ InWindow(r, qry.time_range_start, qry.time_range_end) )
             => \E i \in 1..Len(qry.scored) :
                   qry.scored[i].type = "log" /\ qry.scored[i].id = r.id
       /\ \A i, j \in 1..Len(qry.scored) :
             ( /\ qry.scored[i].type = qry.scored[j].type
               /\ qry.scored[i].id = qry.scored[j].id ) => i = j

====
